---- MODULE Spec2Model ----
(***************************************************************************)
(* Verification model of the document processing pipeline:                 *)
(*   - core/circuit_breaker.py   CircuitBreaker (closed/open/half_open)    *)
(*   - core/result_cache.py      ResultCache (ETag-keyed result cache)     *)
(*   - core/document_manager.py  DocumentManager.process_document          *)
(*   - core/batch_processor.py   BatchProcessor (grouping, worker pool,    *)
(*                               cooperative cancellation)                 *)
(* Each component has its own specification (SpecBreaker, SpecDocMgr,      *)
(* SpecCache, SpecBatch); the variables of the other components stay at    *)
(* their initial values under it.                                          *)
(***************************************************************************)
EXTENDS Integers, Sequences, FiniteSets, TLC

VARIABLES
    \* ---- CircuitBreakerConfig (circuit_breaker.py:17-24)
    failure_threshold, recovery_timeout, success_threshold,
    \* ---- CircuitBreaker / CircuitBreakerStats fields
    state,                          \* self.state
    total_requests,                 \* self.stats.total_requests
    current_consecutive_failures,   \* self.stats.current_consecutive_failures
    current_consecutive_successes,  \* self.stats.current_consecutive_successes
    last_failure_time,              \* self.last_failure_time (set by _open_circuit)
    stats_last_failure_time,        \* self.stats.last_failure_time (set by _record_failure)
    \* ---- callers of CircuitBreaker.call
    cb_pc,          \* per thread: "idle" | "running" (func executing, lock released)
    cb_outcome,     \* per thread: how its latest call() ended
    cb_event,       \* the latest breaker step: [op, thread, pre (state before it)]
    cb_now,         \* time.time()
    \* ---- ResultCache (result_cache.py)
    max_age_hours,  \* self.max_age_hours
    memory_cache,   \* self._memory_cache: cache key -> CacheEntry
    disk_cache,     \* the <cache_key>.json files of cache_dir
    disk_writable,  \* whether open(cache_file, 'w') succeeds in cache_dir
    cache_now,      \* datetime.now(), in hours
    cache_ops,      \* number of operations issued so far (bounds the run)
    cache_ret,      \* the latest direct ResultCache operation and what it returned
    last_set,       \* per key: the latest direct set() not followed by an invalidation
    \* ---- DocumentManager (document_manager.py)
    n8n_configured, \* self.n8n_client is not None
    dm_prev,        \* per key: the previous process_document call for that key
    dm_last,        \* the latest process_document call: inputs, path, result
    \* ---- BatchProcessor (batch_processor.py)
    max_concurrent_documents, max_concurrent_processors,
    cancelled,                  \* self._cancelled
    processed_count, cache_hits, cache_misses,
    documents_with_metadata,    \* the batch: the document_type of each item
    bp_pc,                      \* where process_batch's thread is
    group_index,                \* position of the for loop over processor_groups
    units,                      \* per item: its _process_single_document call
    successful, failed,         \* the lists of _process_processor_group
    successful_results, failed_results,  \* the lists of process_batch
    \* ---- callers of ResultCache._generate_cache_key
    key_call,       \* the latest call: document, metadata and the key returned
    key_prev,       \* the call before it
    \* ---- PDFChunker.chunk_pdf (utils/pdf_chunker.py)
    pdf_pages,              \* the document: the size of each page written alone
    max_chunk_size_bytes,   \* self.max_chunk_size_bytes
    chunk_pc,               \* "idle" | "loop" | "done"
    page_num,               \* the for loop's index (0-based)
    chunks,                 \* the ChunkInfo list built so far
    current_chunk_pages,    \* the pages (0-based numbers) of the open chunk
    current_chunk_size,
    chunk_counter,
    chunk_start_page,
    \* ---- DataLabsProcessor._process_chunked_document (datalabs_processor.py)
    cd_chunks,          \* chunks: the ChunkInfo list chunk_pdf returned
    cd_pc,              \* "idle" | "chunks" | "combine" | "done"
    chunk_index,        \* the chunk loop's position (1-based: i + 1)
    retry_attempt,      \* the retry loop's index
    attempts,           \* per chunk: the outcomes of its attempts so far
    chunk_results,
    combined_result,
    \* ---- DataLabsProcessor._poll_for_completion (datalabs_processor.py)
    poll_timeout,       \* self.timeout, in units of self.poll_interval
    poll_pc,            \* "idle" | "polling" | "returned" | "raised"
    poll_elapsed,       \* time.time() - start_time, in the same units
    poll_responses,     \* what each status check so far came back with
    poll_outcome,       \* what the caller got
    \* ---- ResultCache used by several worker threads (result_cache.py)
    cache_threads,      \* per thread: where it is inside a cache operation
    thread_ops,         \* cache operations started so far
    \* ---- CircuitBreakerManager (circuit_breaker.py)
    circuit_breakers,   \* self._circuit_breakers: name -> instance
    lookups,            \* per thread: where it is inside get_circuit_breaker
    instances_created,  \* CircuitBreaker objects constructed so far
    handles,            \* per name: the instances lookups have returned
    \* ---- ProcessingQueue (orchestration/processing_queue.py)
    tasks,              \* self.tasks: task id -> ProcessingTask (status, priority)
    pending_queue,      \* self.pending_queue
    processing_tasks,   \* self.processing_tasks: task id -> the worker's asyncio task
    completed_tasks,    \* self.completed_tasks
    failed_tasks,       \* self.failed_tasks
    stats,              \* self.stats
    workers,            \* per worker coroutine: where it is, and Task.cancel() pending
    cancel_accepted     \* the task ids for which cancel_task has returned True

breakerVars == <<failure_threshold, recovery_timeout, success_threshold, state,
                 total_requests, current_consecutive_failures,
                 current_consecutive_successes, last_failure_time,
                 stats_last_failure_time, cb_pc, cb_outcome, cb_event, cb_now>>

cacheVars == <<max_age_hours, memory_cache, disk_cache, disk_writable, cache_now, cache_ops,
               cache_ret, last_set>>

dmVars == <<n8n_configured, dm_prev, dm_last>>

batchVars == <<max_concurrent_documents, max_concurrent_processors, cancelled,
               processed_count, cache_hits, cache_misses, documents_with_metadata,
               bp_pc, group_index, units, successful, failed, successful_results,
               failed_results>>

keyVars == <<key_call, key_prev>>

chunkerVars == <<pdf_pages, max_chunk_size_bytes, chunk_pc, page_num, chunks,
                 current_chunk_pages, current_chunk_size, chunk_counter,
                 chunk_start_page>>

chunkedVars == <<cd_chunks, cd_pc, chunk_index, retry_attempt, attempts,
                 chunk_results, combined_result>>

pollVars == <<poll_timeout, poll_pc, poll_elapsed, poll_responses, poll_outcome>>

cacheThreadVars == <<cache_threads, thread_ops>>

registryVars == <<circuit_breakers, lookups, instances_created, handles>>

queueVars == <<tasks, pending_queue, processing_tasks, completed_tasks, failed_tasks,
               stats, workers, cancel_accepted>>

vars == <<breakerVars, cacheVars, dmVars, batchVars, keyVars, chunkerVars, chunkedVars, pollVars, cacheThreadVars, registryVars, queueVars>>

(* what the operations of each component leave alone; the document manager *)
(* owns its result cache and the clock the cache reads                     *)
outsideBreaker == <<cacheVars, dmVars, batchVars, keyVars, chunkerVars, chunkedVars, pollVars, cacheThreadVars, registryVars, queueVars>>
outsideCache == <<breakerVars, dmVars, batchVars, keyVars, chunkerVars, chunkedVars, pollVars, cacheThreadVars, registryVars, queueVars>>
outsideDocMgr == <<breakerVars, batchVars, keyVars, chunkerVars, chunkedVars, pollVars, cacheThreadVars, registryVars, queueVars>>
outsideBatch == <<breakerVars, cacheVars, dmVars, keyVars, chunkerVars, chunkedVars, pollVars, cacheThreadVars, registryVars, queueVars>>
outsideKey == <<breakerVars, cacheVars, dmVars, batchVars, chunkerVars, chunkedVars, pollVars, cacheThreadVars, registryVars, queueVars>>
outsideChunker == <<breakerVars, cacheVars, dmVars, batchVars, keyVars, chunkedVars, pollVars, cacheThreadVars, registryVars, queueVars>>
outsideChunked == <<breakerVars, cacheVars, dmVars, batchVars, keyVars, chunkerVars, pollVars, cacheThreadVars, registryVars, queueVars>>
outsidePoll == <<breakerVars, cacheVars, dmVars, batchVars, keyVars, chunkerVars,
                 chunkedVars, cacheThreadVars, registryVars, queueVars>>
outsideCacheThreads == <<breakerVars, dmVars, batchVars, keyVars, chunkerVars,
                         chunkedVars, pollVars, registryVars, queueVars>>
outsideRegistry == <<breakerVars, cacheVars, dmVars, batchVars, keyVars, chunkerVars,
                     chunkedVars, pollVars, cacheThreadVars, queueVars>>
outsideQueue == <<breakerVars, cacheVars, dmVars, batchVars, keyVars, chunkerVars,
                  chunkedVars, pollVars, cacheThreadVars, registryVars>>

----------------------------------------------------------------------------
(* Bounds of the breaker model *)
MaxFailureThreshold == 2
MaxRecoveryTimeout == 2
MaxSuccessThreshold == 2
MaxRequests == 5
MaxBreakerTime == 3

(* Threads that may be inside CircuitBreaker.call at the same time *)
Callers == {"t1", "t2"}

(* last_failure_time = None *)
NONE_TIME == -1

CLOSED == "closed"
OPEN == "open"
HALF_OPEN == "half_open"

----------------------------------------------------------------------------
(* CircuitBreaker.__init__ with a CircuitBreakerConfig drawn from the bounds *)
BreakerInit ==
    /\ failure_threshold \in 1..MaxFailureThreshold
    /\ recovery_timeout \in 1..MaxRecoveryTimeout
    /\ success_threshold \in 1..MaxSuccessThreshold
    /\ state = CLOSED
    /\ total_requests = 0
    /\ current_consecutive_failures = 0
    /\ current_consecutive_successes = 0
    /\ last_failure_time = NONE_TIME
    /\ stats_last_failure_time = NONE_TIME
    /\ cb_pc = [t \in Callers |-> "idle"]
    /\ cb_outcome = [t \in Callers |-> "none"]
    /\ cb_event = [op |-> "init", thread |-> "none", pre |-> CLOSED]
    /\ cb_now = 0

(* The breaker is not in use (specifications of the other components) *)
BreakerQuiet ==
    /\ failure_threshold = 1
    /\ recovery_timeout = 1
    /\ success_threshold = 1
    /\ state = CLOSED
    /\ total_requests = 0
    /\ current_consecutive_failures = 0
    /\ current_consecutive_successes = 0
    /\ last_failure_time = NONE_TIME
    /\ stats_last_failure_time = NONE_TIME
    /\ cb_pc = [t \in Callers |-> "idle"]
    /\ cb_outcome = [t \in Callers |-> "none"]
    /\ cb_event = [op |-> "init", thread |-> "none", pre |-> CLOSED]
    /\ cb_now = 0

configVars == <<failure_threshold, recovery_timeout, success_threshold>>

(* Faulty variant of _should_attempt_reset: the timeout compared off by one *)
ShouldAttemptReset_OffByOne ==
    IF last_failure_time = NONE_TIME
    THEN TRUE
    ELSE cb_now - last_failure_time + 1 >= recovery_timeout

(* _should_attempt_reset: measured on self.last_failure_time *)
ShouldAttemptReset ==
    IF last_failure_time = NONE_TIME
    THEN TRUE
    ELSE cb_now - last_failure_time >= recovery_timeout

(* Faulty variant of the admission check: the threshold compared with > *)
AdmissionState_StrictThreshold ==
    IF state = CLOSED
    THEN (IF current_consecutive_failures > failure_threshold THEN OPEN ELSE CLOSED)
    ELSE IF state = OPEN
         THEN (IF ShouldAttemptReset THEN HALF_OPEN ELSE OPEN)
         ELSE state

(* The state after the admission check of call(): lines 90-97 *)
AdmissionState ==
    IF state = CLOSED
    THEN (IF current_consecutive_failures >= failure_threshold THEN OPEN ELSE CLOSED)
    ELSE IF state = OPEN
         THEN (IF ShouldAttemptReset THEN HALF_OPEN ELSE OPEN)
         ELSE state

(* how cb_outcome marks a call whose func is running: by the state it was  *)
(* admitted in (the state the admission check of lines 90-97 left)         *)
Started == IF AdmissionState = HALF_OPEN THEN "started_half_open" ELSE "started"

(* Faulty variant of call(): the lock is kept while func runs, so no call   *)
(* enters the admission check while another call's func is running         *)
CallAdmit_LockHeldThroughCall(t) ==
    /\ cb_pc[t] = "idle"
    /\ \A u \in Callers : cb_pc[u] # "running"
    /\ total_requests < MaxRequests
    /\ total_requests' = total_requests + 1
    /\ state' = AdmissionState
    \* _open_circuit (closed -> open) stamps self.last_failure_time
    /\ last_failure_time' =
          IF state = CLOSED /\ AdmissionState = OPEN THEN cb_now ELSE last_failure_time
    \* _half_open_circuit zeroes the consecutive successes
    /\ current_consecutive_successes' =
          IF state = OPEN /\ AdmissionState = HALF_OPEN
          THEN 0 ELSE current_consecutive_successes
    /\ IF AdmissionState = OPEN
       THEN /\ cb_pc' = cb_pc
            /\ cb_outcome' = [cb_outcome EXCEPT ![t] = "rejected"]
            /\ cb_event' = [op |-> "reject", thread |-> t, pre |-> state]
       ELSE /\ cb_pc' = [cb_pc EXCEPT ![t] = "running"]
            /\ cb_outcome' = [cb_outcome EXCEPT ![t] = Started]
            /\ cb_event' = [op |-> "admit", thread |-> t, pre |-> state]
    /\ UNCHANGED <<configVars, current_consecutive_failures,
                   stats_last_failure_time, cb_now>>
    /\ UNCHANGED outsideBreaker

(* call(), first critical section (lines 86-102): count the request, apply  *)
(* the closed->open or open->half_open transition, then either raise        *)
(* CircuitBreakerOpenException or release the lock and start func.          *)
CallAdmit(t) ==
    /\ cb_pc[t] = "idle"
    /\ total_requests < MaxRequests
    /\ total_requests' = total_requests + 1
    /\ state' = AdmissionState
    \* _open_circuit (closed -> open) stamps self.last_failure_time
    /\ last_failure_time' =
          IF state = CLOSED /\ AdmissionState = OPEN THEN cb_now ELSE last_failure_time
    \* _half_open_circuit zeroes the consecutive successes
    /\ current_consecutive_successes' =
          IF state = OPEN /\ AdmissionState = HALF_OPEN
          THEN 0 ELSE current_consecutive_successes
    /\ IF AdmissionState = OPEN
       THEN /\ cb_pc' = cb_pc
            /\ cb_outcome' = [cb_outcome EXCEPT ![t] = "rejected"]
            /\ cb_event' = [op |-> "reject", thread |-> t, pre |-> state]
       ELSE /\ cb_pc' = [cb_pc EXCEPT ![t] = "running"]
            /\ cb_outcome' = [cb_outcome EXCEPT ![t] = Started]
            /\ cb_event' = [op |-> "admit", thread |-> t, pre |-> state]
    /\ UNCHANGED <<configVars, current_consecutive_failures,
                   stats_last_failure_time, cb_now>>
    /\ UNCHANGED outsideBreaker

(* Faulty variant of _record_success: closes only above success_threshold *)
RecordSuccess_StrictThreshold(t) ==
    /\ cb_pc[t] = "running"
    /\ cb_pc' = [cb_pc EXCEPT ![t] = "idle"]
    /\ cb_outcome' = [cb_outcome EXCEPT ![t] = "success"]
    /\ cb_event' = [op |-> "success", thread |-> t, pre |-> state]
    /\ IF state = HALF_OPEN /\ current_consecutive_successes + 1 > success_threshold
       THEN /\ state' = CLOSED
            /\ current_consecutive_failures' = 0
            /\ current_consecutive_successes' = 0
       ELSE /\ state' = state
            /\ current_consecutive_failures' = 0
            /\ current_consecutive_successes' = current_consecutive_successes + 1
    /\ UNCHANGED <<configVars, total_requests, last_failure_time,
                   stats_last_failure_time, cb_now>>
    /\ UNCHANGED outsideBreaker

(* Faulty variant of _record_success: the consecutive failures are kept *)
RecordSuccess_KeepsFailures(t) ==
    /\ cb_pc[t] = "running"
    /\ cb_pc' = [cb_pc EXCEPT ![t] = "idle"]
    /\ cb_outcome' = [cb_outcome EXCEPT ![t] = "success"]
    /\ cb_event' = [op |-> "success", thread |-> t, pre |-> state]
    /\ IF state = HALF_OPEN /\ current_consecutive_successes + 1 >= success_threshold
       THEN /\ state' = CLOSED
            /\ current_consecutive_failures' = 0
            /\ current_consecutive_successes' = 0
       ELSE /\ state' = state
            /\ current_consecutive_failures' = current_consecutive_failures
            /\ current_consecutive_successes' = current_consecutive_successes + 1
    /\ UNCHANGED <<configVars, total_requests, last_failure_time,
                   stats_last_failure_time, cb_now>>
    /\ UNCHANGED outsideBreaker

(* Faulty variant of _record_success: the threshold of successes closes an *)
(* open breaker too                                                        *)
RecordSuccess_ClosesWhenOpen(t) ==
    /\ cb_pc[t] = "running"
    /\ cb_pc' = [cb_pc EXCEPT ![t] = "idle"]
    /\ cb_outcome' = [cb_outcome EXCEPT ![t] = "success"]
    /\ cb_event' = [op |-> "success", thread |-> t, pre |-> state]
    /\ IF state \in {HALF_OPEN, OPEN}
          /\ current_consecutive_successes + 1 >= success_threshold
       THEN /\ state' = CLOSED
            /\ current_consecutive_failures' = 0
            /\ current_consecutive_successes' = 0
       ELSE /\ state' = state
            /\ current_consecutive_failures' = 0
            /\ current_consecutive_successes' = current_consecutive_successes + 1
    /\ UNCHANGED <<configVars, total_requests, last_failure_time,
                   stats_last_failure_time, cb_now>>
    /\ UNCHANGED outsideBreaker

(* func returned: _record_success (lines 121-134, with _close_circuit) *)
RecordSuccess(t) ==
    /\ cb_pc[t] = "running"
    /\ cb_pc' = [cb_pc EXCEPT ![t] = "idle"]
    /\ cb_outcome' = [cb_outcome EXCEPT ![t] = "success"]
    /\ cb_event' = [op |-> "success", thread |-> t, pre |-> state]
    /\ IF state = HALF_OPEN /\ current_consecutive_successes + 1 >= success_threshold
       THEN /\ state' = CLOSED
            /\ current_consecutive_failures' = 0
            /\ current_consecutive_successes' = 0
       ELSE /\ state' = state
            /\ current_consecutive_failures' = 0
            /\ current_consecutive_successes' = current_consecutive_successes + 1
    /\ UNCHANGED <<configVars, total_requests, last_failure_time,
                   stats_last_failure_time, cb_now>>
    /\ UNCHANGED outsideBreaker

(* Faulty variant of _record_failure: half-open reopens only once the failures    *)
(* reach failure_threshold again                                            *)
RecordFailure_ThresholdInHalfOpen(t) ==
    /\ cb_pc[t] = "running"
    /\ cb_pc' = [cb_pc EXCEPT ![t] = "idle"]
    /\ cb_outcome' = [cb_outcome EXCEPT ![t] = "failure"]
    /\ cb_event' = [op |-> "failure", thread |-> t, pre |-> state]
    /\ stats_last_failure_time' = cb_now
    /\ current_consecutive_successes' = 0
    /\ current_consecutive_failures' = current_consecutive_failures + 1
    /\ IF state = HALF_OPEN /\ current_consecutive_failures + 1 >= failure_threshold
       THEN /\ state' = OPEN
            /\ last_failure_time' = cb_now
       ELSE /\ state' = state
            /\ last_failure_time' = last_failure_time
    /\ UNCHANGED <<configVars, total_requests, cb_now>>
    /\ UNCHANGED outsideBreaker

(* func raised one of config.expected_exceptions: _record_failure           *)
(* (lines 136-148, with _open_circuit when half-open)                       *)
RecordFailure(t) ==
    /\ cb_pc[t] = "running"
    /\ cb_pc' = [cb_pc EXCEPT ![t] = "idle"]
    /\ cb_outcome' = [cb_outcome EXCEPT ![t] = "failure"]
    /\ cb_event' = [op |-> "failure", thread |-> t, pre |-> state]
    /\ stats_last_failure_time' = cb_now
    /\ current_consecutive_successes' = 0
    /\ current_consecutive_failures' = current_consecutive_failures + 1
    /\ IF state = HALF_OPEN
       THEN /\ state' = OPEN
            /\ last_failure_time' = cb_now
       ELSE /\ state' = state
            /\ last_failure_time' = last_failure_time
    /\ UNCHANGED <<configVars, total_requests, cb_now>>
    /\ UNCHANGED outsideBreaker

(* Faulty variant of lines 116-119: an exception outside                   *)
(* expected_exceptions is recorded as a failure before it is re-raised     *)
UnexpectedException_RecordsFailure(t) ==
    /\ cb_pc[t] = "running"
    /\ cb_pc' = [cb_pc EXCEPT ![t] = "idle"]
    /\ cb_outcome' = [cb_outcome EXCEPT ![t] = "unexpected"]
    /\ cb_event' = [op |-> "unexpected", thread |-> t, pre |-> state]
    /\ stats_last_failure_time' = cb_now
    /\ current_consecutive_successes' = 0
    /\ current_consecutive_failures' = current_consecutive_failures + 1
    /\ IF state = HALF_OPEN
       THEN /\ state' = OPEN
            /\ last_failure_time' = cb_now
       ELSE /\ state' = state
            /\ last_failure_time' = last_failure_time
    /\ UNCHANGED <<configVars, total_requests, cb_now>>
    /\ UNCHANGED outsideBreaker

(* func raised an exception outside expected_exceptions (lines 116-119) *)
UnexpectedException(t) ==
    /\ cb_pc[t] = "running"
    /\ cb_pc' = [cb_pc EXCEPT ![t] = "idle"]
    /\ cb_outcome' = [cb_outcome EXCEPT ![t] = "unexpected"]
    /\ cb_event' = [op |-> "unexpected", thread |-> t, pre |-> state]
    /\ UNCHANGED <<configVars, state, total_requests, current_consecutive_failures,
                   current_consecutive_successes, last_failure_time,
                   stats_last_failure_time, cb_now>>
    /\ UNCHANGED outsideBreaker

(* reset() (lines 205-212) *)
Reset ==
    /\ state' = CLOSED
    /\ current_consecutive_failures' = 0
    /\ current_consecutive_successes' = 0
    /\ last_failure_time' = NONE_TIME
    /\ cb_event' = [op |-> "reset", thread |-> "none", pre |-> state]
    /\ UNCHANGED <<configVars, total_requests, stats_last_failure_time,
                   cb_pc, cb_outcome, cb_now>>
    /\ UNCHANGED outsideBreaker

(* the clock read by time.time() advances *)
BreakerTick ==
    /\ cb_now < MaxBreakerTime
    /\ cb_now' = cb_now + 1
    /\ cb_event' = [op |-> "tick", thread |-> "none", pre |-> state]
    /\ UNCHANGED <<configVars, state, total_requests, current_consecutive_failures,
                   current_consecutive_successes, last_failure_time,
                   stats_last_failure_time, cb_pc, cb_outcome>>
    /\ UNCHANGED outsideBreaker

BreakerNext ==
    \/ \E t \in Callers : CallAdmit(t)
    \/ \E t \in Callers : RecordSuccess(t)
    \/ \E t \in Callers : RecordFailure(t)
    \/ \E t \in Callers : UnexpectedException(t)
    \/ Reset
    \/ BreakerTick

----------------------------------------------------------------------------
(* ResultCache *)

(* Bounds of the cache and document manager models *)
MaxAgeHours == 1
MaxCacheTime == 2
MaxCacheOps == 3
MaxDmCalls == 2

Etags == {"abc123", "def456"}

(* Document objects handed to the cache and to process_document *)
Documents ==
    { [s3_key |-> "docs/a.pdf", filename |-> "a.pdf", etag |-> "abc123"],
      [s3_key |-> "docs/b.pdf", filename |-> "b.pdf", etag |-> "def456"] }

(* validate_document_metadata's list of supported document types (line 441), *)
(* cut to two                                                                *)
SupportedDocumentTypes == {"manual", "diagram"}

(* ProcessorFactory.PROCESSOR_MAPPING *)
ProcessorOfMethod(processing_method) ==
    CASE processing_method = "markdown" -> "DataLabsProcessor"
      [] processing_method = "plain_text" -> "PyMuPDFProcessor"
      [] OTHER -> "unsupported"

(* supports_processing_method *)
SupportsProcessingMethod(processing_method) ==
    ProcessorOfMethod(processing_method) # "unsupported"

(* the order of Python's sorted() on the machine names used here *)
NameRank(n) == CASE n = "X1" -> 1 [] n = "X2" -> 2 [] OTHER -> 3

RECURSIVE Insert(_, _)
Insert(x, sorted) ==
    IF sorted = <<>> THEN <<x>>
    ELSE IF NameRank(x) <= NameRank(Head(sorted))
         THEN <<x>> \o sorted
         ELSE <<Head(sorted)>> \o Insert(x, Tail(sorted))

(* sorted(machine_names) *)
RECURSIVE SortedNames(_)
SortedNames(names) ==
    IF names = <<>> THEN <<>> ELSE Insert(Head(names), SortedNames(Tail(names)))

(* Faulty variant of _generate_cache_key: the machine names go into the    *)
(* key in the order given                                                  *)
GenerateCacheKey_Unsorted(document, metadata) ==
    << document.etag, metadata.document_type, metadata.machine_names,
       metadata.basic >>

(* _generate_cache_key: md5 of json.dumps(cache_input, sort_keys=True); the  *)
(* digest is modelled by the canonical input itself (md5 taken as injective) *)
GenerateCacheKey(document, metadata) ==
    << document.etag, metadata.document_type, SortedNames(metadata.machine_names),
       metadata.basic >>

(* processing results: a dict is modelled by a tag and its                   *)
(* processing_info.success; NoneResult is Python's None, EmptyResult is {}   *)
NoneResult == [tag |-> "None", success |-> FALSE]
EmptyResult == [tag |-> "empty", success |-> FALSE]

(* the truth value Python gives a result in `if cached_result:` *)
Truthy(result) == result.tag \notin {"None", "empty"}

(* Faulty variant of _is_expired: an entry expires one hour early *)
IsExpired_Early(entry) == cache_now - entry.created_at + 1 > max_age_hours

(* _is_expired *)
IsExpired(entry) == cache_now - entry.created_at > max_age_hours

(* dict without / with a key *)
Without(cache, keys) == [k \in (DOMAIN cache) \ keys |-> cache[k]]

WithEntry(cache, key, entry) ==
    [k \in (DOMAIN cache) \cup {key} |-> IF k = key THEN entry ELSE cache[k]]

(* CacheEntry as built by set() (filename, file_size and machine_names are   *)
(* stored too and never read back by the cache)                              *)
NewEntry(document, metadata, processing_result, processor_used) ==
    [document_etag |-> document.etag,
     document_type |-> metadata.document_type,
     processing_result |-> processing_result,
     processor_used |-> processor_used,
     created_at |-> cache_now]

(* Faulty variant of get(): the entry found is returned whatever its age *)
GetValue_ServeExpired(document, metadata) ==
    LET key == GenerateCacheKey(document, metadata) IN
    IF key \in DOMAIN memory_cache
    THEN IF memory_cache[key].document_etag # document.etag THEN NoneResult
         ELSE memory_cache[key].processing_result
    ELSE NoneResult

(* get(): the value returned and whether the entry found is invalidated *)
GetValue(document, metadata) ==
    LET key == GenerateCacheKey(document, metadata) IN
    IF key \in DOMAIN memory_cache
    THEN IF IsExpired(memory_cache[key]) THEN NoneResult
         ELSE IF memory_cache[key].document_etag # document.etag THEN NoneResult
         ELSE memory_cache[key].processing_result
    ELSE NoneResult

GetEvicts(document, metadata) ==
    LET key == GenerateCacheKey(document, metadata) IN
    /\ key \in DOMAIN memory_cache
    /\ \/ IsExpired(memory_cache[key])
       \/ memory_cache[key].document_etag # document.etag

(* the memory and disk state get() leaves (with _invalidate_entry) *)
MemoryAfterGet(document, metadata) ==
    IF GetEvicts(document, metadata)
    THEN Without(memory_cache, {GenerateCacheKey(document, metadata)})
    ELSE memory_cache

DiskAfterGet(document, metadata) ==
    IF GetEvicts(document, metadata)
    THEN Without(disk_cache, {GenerateCacheKey(document, metadata)})
    ELSE disk_cache

(* Faulty variant of set(): an entry already cached under the key is kept *)
MemoryAfterSet_KeepOld(document, metadata, processing_result, processor_used) ==
    LET key == GenerateCacheKey(document, metadata) IN
    IF key \in DOMAIN memory_cache THEN memory_cache
    ELSE WithEntry(memory_cache, key,
                   NewEntry(document, metadata, processing_result, processor_used))

(* set(): the memory index after it *)
MemoryAfterSet(document, metadata, processing_result, processor_used) ==
    WithEntry(memory_cache, GenerateCacheKey(document, metadata),
              NewEntry(document, metadata, processing_result, processor_used))

(* set(): the disk after it; a failed write is logged and leaves the file   *)
(* as it was                                                                *)
DiskAfterSet(document, metadata, processing_result, processor_used) ==
    IF disk_writable
    THEN WithEntry(disk_cache, GenerateCacheKey(document, metadata),
                   NewEntry(document, metadata, processing_result, processor_used))
    ELSE disk_cache

NoSet == [result |-> NoneResult, time |-> NONE_TIME, overwrote |-> FALSE]

(* the latest set() of a key, NoSet when there is none *)
LastSet(key) == IF key \in DOMAIN last_set THEN last_set[key] ELSE NoSet

(* ResultCache.__init__ on an empty cache directory *)
CacheInit ==
    /\ max_age_hours \in 1..MaxAgeHours
    /\ memory_cache = << >>
    /\ disk_cache = << >>
    /\ disk_writable \in BOOLEAN
    /\ cache_now = 0
    /\ cache_ops = 0
    /\ cache_ret = [op |-> "init", key |-> <<>>, value |-> NoneResult]
    /\ last_set = << >>

CacheQuiet ==
    /\ max_age_hours = 1
    /\ memory_cache = << >>
    /\ disk_cache = << >>
    /\ disk_writable = TRUE
    /\ cache_now = 0
    /\ cache_ops = 0
    /\ cache_ret = [op |-> "init", key |-> <<>>, value |-> NoneResult]
    /\ last_set = << >>

(* metadata of the requests issued directly to the cache: one base request *)
(* and its variants in machine order and in category                       *)
CacheMetadata ==
    { [document_type |-> "manual", machine_names |-> <<"X1", "X2">>, basic |-> FALSE],
      [document_type |-> "manual", machine_names |-> <<"X2", "X1">>, basic |-> FALSE],
      [document_type |-> "diagram", machine_names |-> <<"X1", "X2">>, basic |-> FALSE] }

(* (processing_result, processor_used) pairs handed to set() *)
CacheSetInputs ==
    { [result |-> [tag |-> "r1", success |-> TRUE], processor |-> "DataLabsProcessor"],
      [result |-> [tag |-> "r2", success |-> FALSE], processor |-> "PyMuPDFProcessor"] }

(* ResultCache.get *)
CacheGet(document, metadata) ==
    /\ cache_ops < MaxCacheOps
    /\ cache_ops' = cache_ops + 1
    /\ memory_cache' = MemoryAfterGet(document, metadata)
    /\ disk_cache' = DiskAfterGet(document, metadata)
    /\ cache_ret' = [op |-> "get", key |-> GenerateCacheKey(document, metadata),
                     value |-> GetValue(document, metadata),
                     evicted |-> GetEvicts(document, metadata)]
    /\ UNCHANGED <<max_age_hours, disk_writable, cache_now, last_set>>
    /\ UNCHANGED outsideCache

(* ResultCache.set *)
CacheSet(document, metadata, processing_result, processor_used) ==
    /\ cache_ops < MaxCacheOps
    /\ cache_ops' = cache_ops + 1
    /\ memory_cache' =
          MemoryAfterSet(document, metadata, processing_result, processor_used)
    /\ disk_cache' =
          DiskAfterSet(document, metadata, processing_result, processor_used)
    /\ cache_ret' = [op |-> "set", key |-> GenerateCacheKey(document, metadata),
                     value |-> NoneResult]
    /\ last_set' =
          LET key == GenerateCacheKey(document, metadata) IN
          WithEntry(last_set, key,
                    [result |-> processing_result, time |-> cache_now,
                     overwrote |-> /\ key \in DOMAIN memory_cache
                                   /\ memory_cache[key].processing_result
                                         # processing_result])
    /\ UNCHANGED <<max_age_hours, disk_writable, cache_now>>
    /\ UNCHANGED outsideCache

(* Faulty variant of invalidate_document: the entries leave the memory index *)
(* and their files stay                                                     *)
InvalidateDocument_MemoryOnly(document) ==
    LET to_remove ==
          {k \in DOMAIN memory_cache : memory_cache[k].document_etag = document.etag}
    IN
    /\ cache_ops < MaxCacheOps
    /\ cache_ops' = cache_ops + 1
    /\ memory_cache' = Without(memory_cache, to_remove)
    /\ disk_cache' = disk_cache
    /\ cache_ret' = [op |-> "invalidate_document", key |-> <<document.etag>>,
                     value |-> NoneResult, removed |-> Cardinality(to_remove)]
    /\ last_set' = Without(last_set, {k \in DOMAIN last_set : k[1] = document.etag})
    /\ UNCHANGED <<max_age_hours, disk_writable, cache_now>>
    /\ UNCHANGED outsideCache

(* ResultCache.invalidate_document; cache_ret keeps the ETag asked for and  *)
(* len(to_remove)                                                           *)
InvalidateDocument(document) ==
    LET to_remove ==
          {k \in DOMAIN memory_cache : memory_cache[k].document_etag = document.etag}
    IN
    /\ cache_ops < MaxCacheOps
    /\ cache_ops' = cache_ops + 1
    /\ memory_cache' = Without(memory_cache, to_remove)
    /\ disk_cache' = Without(disk_cache, to_remove)
    /\ cache_ret' = [op |-> "invalidate_document", key |-> <<document.etag>>,
                     value |-> NoneResult, removed |-> Cardinality(to_remove)]
    /\ last_set' = Without(last_set, {k \in DOMAIN last_set : k[1] = document.etag})
    /\ UNCHANGED <<max_age_hours, disk_writable, cache_now>>
    /\ UNCHANGED outsideCache

(* ResultCache.cleanup_expired *)
CleanupExpired ==
    LET expired_keys == {k \in DOMAIN memory_cache : IsExpired(memory_cache[k])} IN
    /\ cache_ops < MaxCacheOps
    /\ cache_ops' = cache_ops + 1
    /\ memory_cache' = Without(memory_cache, expired_keys)
    /\ disk_cache' = Without(disk_cache, expired_keys)
    /\ cache_ret' = [op |-> "cleanup_expired", key |-> <<>>, value |-> NoneResult]
    /\ UNCHANGED <<max_age_hours, disk_writable, cache_now, last_set>>
    /\ UNCHANGED outsideCache

(* ResultCache.clear_all *)
ClearAll ==
    /\ cache_ops < MaxCacheOps
    /\ cache_ops' = cache_ops + 1
    /\ memory_cache' = << >>
    /\ disk_cache' = << >>
    /\ cache_ret' = [op |-> "clear_all", key |-> <<>>, value |-> NoneResult]
    /\ last_set' = << >>
    /\ UNCHANGED <<max_age_hours, disk_writable, cache_now>>
    /\ UNCHANGED outsideCache

(* process restart: ResultCache.__init__ / _load_cache_index rebuilds the    *)
(* index from the files, deleting the expired ones                          *)
LoadCacheIndex ==
    LET expired_keys == {k \in DOMAIN disk_cache : IsExpired(disk_cache[k])} IN
    /\ cache_ops < MaxCacheOps
    /\ cache_ops' = cache_ops + 1
    /\ memory_cache' = Without(disk_cache, expired_keys)
    /\ disk_cache' = Without(disk_cache, expired_keys)
    /\ cache_ret' = [op |-> "load_cache_index", key |-> <<>>, value |-> NoneResult]
    /\ last_set' = << >>
    /\ UNCHANGED <<max_age_hours, disk_writable, cache_now>>
    /\ UNCHANGED outsideCache

(* datetime.now() advances by an hour *)
CacheTick ==
    /\ cache_now < MaxCacheTime
    /\ cache_now' = cache_now + 1
    /\ UNCHANGED <<max_age_hours, disk_writable, memory_cache, disk_cache, cache_ops, cache_ret,
                   last_set>>
    /\ UNCHANGED outsideCache

CacheNext ==
    \/ \E d \in Documents, m \in CacheMetadata : CacheGet(d, m)
    \/ \E d \in Documents, m \in CacheMetadata, i \in CacheSetInputs :
          CacheSet(d, m, i.result, i.processor)
    \/ \E d \in Documents : InvalidateDocument(d)
    \/ CleanupExpired
    \/ ClearAll
    \/ LoadCacheIndex
    \/ CacheTick

----------------------------------------------------------------------------
(* DocumentManager.process_document *)

(* validate_document_metadata: the list of errors *)
ValidationErrors(metadata) ==
    (IF metadata.machine_names = <<>> THEN {"Machine names are required"} ELSE {})
    \cup (IF metadata.document_type = "" THEN {"Document type is required"}
          ELSE IF metadata.document_type \notin SupportedDocumentTypes
               THEN {"Unsupported document type"} ELSE {})
    \cup (IF ~SupportsProcessingMethod(metadata.processing_method)
          THEN {"Unsupported processing method"} ELSE {})

(* metadata handed to process_document: the two processing methods, and    *)
(* one request for each validation error                                   *)
DmMetadata ==
    { [document_type |-> "manual", machine_names |-> <<"X1">>, basic |-> FALSE,
       processing_method |-> "markdown"],
      [document_type |-> "manual", machine_names |-> <<"X1">>, basic |-> FALSE,
       processing_method |-> "plain_text"],
      [document_type |-> "manual", machine_names |-> <<>>, basic |-> FALSE,
       processing_method |-> "markdown"],
      [document_type |-> "bogus", machine_names |-> <<"X1">>, basic |-> FALSE,
       processing_method |-> "markdown"],
      [document_type |-> "manual", machine_names |-> <<"X1">>, basic |-> FALSE,
       processing_method |-> "bogus"] }

NoCall ==
    [path |-> "none", time |-> NONE_TIME, invoked |-> FALSE,
     result_success |-> FALSE]

NoReturn ==
    [key |-> <<>>, time |-> NONE_TIME, path |-> "none", success |-> FALSE,
     from_cache |-> FALSE, processor_used |-> "none", processing_result |-> NoneResult,
     invoked |-> FALSE, webhook |-> "none", webhook_result |-> "None",
     error |-> "None", failed_step |-> "none", raised |-> FALSE,
     processing_method |-> "none", cached_processor |-> "none",
     prev |-> NoCall]

(* DocumentManager.__init__ *)
DmInit ==
    /\ n8n_configured \in BOOLEAN
    /\ dm_prev = << >>
    /\ dm_last = NoReturn

(* the previous process_document call of a key *)
PrevCall(key) == IF key \in DOMAIN dm_prev THEN dm_prev[key] ELSE NoCall

DmQuiet ==
    /\ n8n_configured = FALSE
    /\ dm_prev = << >>
    /\ dm_last = NoReturn

(* the webhook_result of a notification attempt: None without a client,     *)
(* else what the client returned (an exception it raises is caught and      *)
(* turned into a failed result)                                             *)
WebhookResult(outcome) ==
    IF ~n8n_configured THEN "None"
    ELSE IF outcome = "ok" THEN "ok" ELSE "failed"

(* an exception raised by the client is caught and gives the same failed   *)
(* webhook_result as a failure it returns (lines 260-262, 316-318, 346-348) *)
WebhookOutcomes == {"ok", "failed", "raised"}

(* the outcomes of this manager's notification attempt: without a webhook  *)
(* client none is made (lines 251, 306, 337)                               *)
NotificationOutcomes == IF n8n_configured THEN WebhookOutcomes ELSE {"none"}

(* the steps after the cache lookup that can raise into the handler of     *)
(* line 329: download_document, get_processor_by_method, processor.process *)
RaisingSteps == {"download", "processor_resolution", "processing"}

(* lines 230-237: validation errors are returned at once *)
PD_ValidationFailed(document, metadata) ==
    /\ cache_ops < MaxDmCalls
    /\ ValidationErrors(metadata) # {}
    /\ cache_ops' = cache_ops + 1
    /\ dm_last' = [NoReturn EXCEPT !.path = "validation_failed", !.time = cache_now,
                                   !.error = "Validation failed",
                                   !.failed_step = "validation"]
    /\ UNCHANGED <<max_age_hours, disk_writable, memory_cache, disk_cache, cache_now, cache_ret,
                   last_set, n8n_configured, dm_prev>>
    /\ UNCHANGED outsideDocMgr

(* lines 244-271: a truthy cached result is notified and returned.         *)
(* dm_last keeps the request's processing_method and the processor_used    *)
(* of the cache entry the result was read from                             *)
PD_CacheHit(document, metadata, outcome) ==
    LET key == GenerateCacheKey(document, metadata) IN
    /\ cache_ops < MaxDmCalls
    /\ ValidationErrors(metadata) = {}
    /\ Truthy(GetValue(document, metadata))
    /\ cache_ops' = cache_ops + 1
    /\ memory_cache' = MemoryAfterGet(document, metadata)
    /\ disk_cache' = DiskAfterGet(document, metadata)
    /\ dm_last' =
         [key |-> key, time |-> cache_now, path |-> "cache_hit", success |-> TRUE,
          from_cache |-> TRUE, processor_used |-> "Cache",
          processing_result |-> GetValue(document, metadata), invoked |-> FALSE,
          webhook |-> IF n8n_configured THEN "send_document_processed" ELSE "none",
          webhook_result |-> WebhookResult(outcome),
          error |-> "None", failed_step |-> "none", raised |-> FALSE,
          processing_method |-> metadata.processing_method,
          cached_processor |-> memory_cache[key].processor_used,
          prev |-> PrevCall(key)]
    /\ dm_prev' = WithEntry(dm_prev, key,
                           [path |-> "cache_hit", time |-> cache_now, invoked |-> FALSE,
                            result_success |-> GetValue(document, metadata).success])
    /\ UNCHANGED <<max_age_hours, disk_writable, cache_now, cache_ret, last_set, n8n_configured>>
    /\ UNCHANGED outsideDocMgr

(* lines 273-281: the download returned no content *)
PD_DownloadEmpty(document, metadata) ==
    LET key == GenerateCacheKey(document, metadata) IN
    /\ cache_ops < MaxDmCalls
    /\ ValidationErrors(metadata) = {}
    /\ ~Truthy(GetValue(document, metadata))
    /\ cache_ops' = cache_ops + 1
    /\ memory_cache' = MemoryAfterGet(document, metadata)
    /\ disk_cache' = DiskAfterGet(document, metadata)
    /\ dm_last' =
         [NoReturn EXCEPT !.key = key, !.time = cache_now, !.path = "download_empty",
                          !.error = "Failed to download document content from S3",
                          !.failed_step = "download",
                          !.prev = PrevCall(key)]
    /\ dm_prev' = WithEntry(dm_prev, key,
                           [path |-> "download_empty", time |-> cache_now, invoked |-> FALSE,
                            result_success |-> FALSE])
    /\ UNCHANGED <<max_age_hours, disk_writable, cache_now, cache_ret, last_set, n8n_configured>>
    /\ UNCHANGED outsideDocMgr

(* Faulty variant of lines 336-348: the error notification is sent without *)
(* the inner try, so an exception of the webhook client escapes            *)
PD_Exception_NotifyEscapes(document, metadata, step, outcome) ==
    LET key == GenerateCacheKey(document, metadata) IN
    /\ cache_ops < MaxDmCalls
    /\ ValidationErrors(metadata) = {}
    /\ ~Truthy(GetValue(document, metadata))
    /\ cache_ops' = cache_ops + 1
    /\ memory_cache' = MemoryAfterGet(document, metadata)
    /\ disk_cache' = DiskAfterGet(document, metadata)
    /\ dm_last' =
         [NoReturn EXCEPT !.key = key, !.time = cache_now, !.path = "exception",
                          !.invoked = (step = "processing"),
                          !.webhook = IF n8n_configured THEN "send_processing_error"
                                      ELSE "none",
                          !.webhook_result = WebhookResult(outcome),
                          !.error = "exception",
                          !.failed_step = step,
                          !.raised = (n8n_configured /\ outcome = "raised"),
                          !.prev = PrevCall(key)]
    /\ dm_prev' = WithEntry(dm_prev, key,
                           [path |-> "exception", time |-> cache_now,
                            invoked |-> (step = "processing"),
                            result_success |-> FALSE])
    /\ UNCHANGED <<max_age_hours, disk_writable, cache_now, cache_ret, last_set, n8n_configured>>
    /\ UNCHANGED outsideDocMgr

(* lines 329-355: a step after the cache lookup raised; the handler sends  *)
(* the error notification inside its own try and returns the failure        *)
PD_Exception(document, metadata, step, outcome) ==
    LET key == GenerateCacheKey(document, metadata) IN
    /\ cache_ops < MaxDmCalls
    /\ ValidationErrors(metadata) = {}
    /\ ~Truthy(GetValue(document, metadata))
    /\ cache_ops' = cache_ops + 1
    /\ memory_cache' = MemoryAfterGet(document, metadata)
    /\ disk_cache' = DiskAfterGet(document, metadata)
    /\ dm_last' =
         [NoReturn EXCEPT !.key = key, !.time = cache_now, !.path = "exception",
                          !.invoked = (step = "processing"),
                          !.webhook = IF n8n_configured THEN "send_processing_error"
                                      ELSE "none",
                          !.webhook_result = WebhookResult(outcome),
                          !.error = "exception",
                          !.failed_step = step,
                          !.raised = FALSE,
                          !.prev = PrevCall(key)]
    /\ dm_prev' = WithEntry(dm_prev, key,
                           [path |-> "exception", time |-> cache_now,
                            invoked |-> (step = "processing"),
                            result_success |-> FALSE])
    /\ UNCHANGED <<max_age_hours, disk_writable, cache_now, cache_ret, last_set, n8n_configured>>
    /\ UNCHANGED outsideDocMgr

(* Faulty variant of lines 283-327: only a successful result is written to *)
(* the cache                                                               *)
PD_Processed_CachesOnlySuccess(document, metadata, processing_success, outcome) ==
    LET key == GenerateCacheKey(document, metadata)
        processor == ProcessorOfMethod(metadata.processing_method)
        result == [tag |-> processor, success |-> processing_success]
    IN
    /\ cache_ops < MaxDmCalls
    /\ ValidationErrors(metadata) = {}
    /\ ~Truthy(GetValue(document, metadata))
    /\ cache_ops' = cache_ops + 1
    \* get() may have evicted an expired entry of this key; set() overwrites it
    /\ memory_cache' =
         IF processing_success
         THEN MemoryAfterSet(document, metadata, result, processor)
         ELSE MemoryAfterGet(document, metadata)
    /\ disk_cache' =
         IF disk_writable /\ processing_success
         THEN DiskAfterSet(document, metadata, result, processor)
         ELSE DiskAfterGet(document, metadata)
    /\ dm_last' =
         [key |-> key, time |-> cache_now, path |-> "processed", success |-> TRUE,
          from_cache |-> FALSE, processor_used |-> processor,
          processing_result |-> result, invoked |-> TRUE,
          webhook |-> IF n8n_configured THEN "send_document_processed" ELSE "none",
          webhook_result |-> WebhookResult(outcome),
          error |-> "None", failed_step |-> "none", raised |-> FALSE,
          processing_method |-> metadata.processing_method,
          cached_processor |-> "none",
          prev |-> PrevCall(key)]
    /\ dm_prev' = WithEntry(dm_prev, key,
                           [path |-> "processed", time |-> cache_now, invoked |-> TRUE,
                            result_success |-> processing_success])
    /\ UNCHANGED <<max_age_hours, disk_writable, cache_now, cache_ret, last_set, n8n_configured>>
    /\ UNCHANGED outsideDocMgr

(* lines 283-327: the processor of the processing method runs, its result   *)
(* (successful or not) is cached and notified, and success=True is returned *)
PD_Processed(document, metadata, processing_success, outcome) ==
    LET key == GenerateCacheKey(document, metadata)
        processor == ProcessorOfMethod(metadata.processing_method)
        result == [tag |-> processor, success |-> processing_success]
    IN
    /\ cache_ops < MaxDmCalls
    /\ ValidationErrors(metadata) = {}
    /\ ~Truthy(GetValue(document, metadata))
    /\ cache_ops' = cache_ops + 1
    \* get() may have evicted an expired entry of this key; set() overwrites it
    /\ memory_cache' = MemoryAfterSet(document, metadata, result, processor)
    /\ disk_cache' =
         IF disk_writable
         THEN DiskAfterSet(document, metadata, result, processor)
         ELSE DiskAfterGet(document, metadata)
    /\ dm_last' =
         [key |-> key, time |-> cache_now, path |-> "processed", success |-> TRUE,
          from_cache |-> FALSE, processor_used |-> processor,
          processing_result |-> result, invoked |-> TRUE,
          webhook |-> IF n8n_configured THEN "send_document_processed" ELSE "none",
          webhook_result |-> WebhookResult(outcome),
          error |-> "None", failed_step |-> "none", raised |-> FALSE,
          processing_method |-> metadata.processing_method,
          cached_processor |-> "none",
          prev |-> PrevCall(key)]
    /\ dm_prev' = WithEntry(dm_prev, key,
                           [path |-> "processed", time |-> cache_now, invoked |-> TRUE,
                            result_success |-> processing_success])
    /\ UNCHANGED <<max_age_hours, disk_writable, cache_now, cache_ret, last_set, n8n_configured>>
    /\ UNCHANGED outsideDocMgr

(* process_document: one of its paths *)
ProcessDocument(document, metadata) ==
    \/ PD_ValidationFailed(document, metadata)
    \/ \E outcome \in NotificationOutcomes : PD_CacheHit(document, metadata, outcome)
    \/ PD_DownloadEmpty(document, metadata)
    \/ \E step \in RaisingSteps, outcome \in NotificationOutcomes :
          PD_Exception(document, metadata, step, outcome)
    \/ \E processing_success \in BOOLEAN, outcome \in NotificationOutcomes :
          PD_Processed(document, metadata, processing_success, outcome)

(* cleanup_cache (lines 456-458) *)
CleanupCache ==
    LET expired_keys == {k \in DOMAIN memory_cache : IsExpired(memory_cache[k])} IN
    /\ memory_cache' = Without(memory_cache, expired_keys)
    /\ disk_cache' = Without(disk_cache, expired_keys)
    /\ UNCHANGED <<max_age_hours, disk_writable, cache_now, cache_ops, cache_ret, last_set>>
    /\ UNCHANGED dmVars
    /\ UNCHANGED outsideDocMgr

DmTick ==
    /\ CacheTick
    /\ UNCHANGED dmVars

DmNext ==
    \/ \E d \in Documents, m \in DmMetadata : ProcessDocument(d, m)
    \/ CleanupCache
    \/ DmTick

----------------------------------------------------------------------------
(* BatchProcessor *)

(* Bounds of the batch model *)
MaxItems == 3
MaxConcurrency == 2

(* the caps of _get_processor_concurrency *)
DataLabsConcurrencyCap == 4
PyMuPDFConcurrencyCap == 2

Min(a, b) == IF a <= b THEN a ELSE b

(* ProcessorFactory.get_processor: LEGACY_DOCUMENT_TYPE_MAPPING, 'Unknown'  *)
(* when it raises (as _group_by_processor_type reads it)                    *)
LegacyProcessorType(document_type) ==
    CASE document_type \in {"manual", "sparepartslist", "spreadsheet"}
           -> "DataLabsProcessor"
      [] document_type \in {"diagram", "plain_document"} -> "PyMuPDFProcessor"
      [] OTHER -> "Unknown"

(* document types of the items of a batch: one per processor group *)
BatchDocumentTypes == {"manual", "diagram"}

RECURSIVE SeqsUpTo(_, _)
SeqsUpTo(S, n) ==
    IF n = 0 THEN {<< >>}
    ELSE LET shorter == SeqsUpTo(S, n - 1) IN
         shorter \cup {Append(q, x) : q \in {p \in shorter : Len(p) = n - 1}, x \in S}

(* the keys of _group_by_processor_type's dict, in insertion order *)
RECURSIVE GroupTypes(_)
GroupTypes(items) ==
    IF items = << >> THEN << >>
    ELSE LET before == GroupTypes(SubSeq(items, 1, Len(items) - 1))
             ptype == LegacyProcessorType(items[Len(items)])
         IN IF \E j \in 1..Len(before) : before[j] = ptype
            THEN before ELSE Append(before, ptype)

(* the items (by position in the batch) of one group, in batch order *)
RECURSIVE GroupDocs(_, _, _)
GroupDocs(items, ptype, upto) ==
    IF upto = 0 THEN << >>
    ELSE LET before == GroupDocs(items, ptype, upto - 1) IN
         IF LegacyProcessorType(items[upto]) = ptype
         THEN Append(before, upto) ELSE before

(* _get_processor_concurrency *)
GetProcessorConcurrency(processor_type, max_docs, max_procs) ==
    CASE processor_type = "DataLabsProcessor" -> Min(max_docs, DataLabsConcurrencyCap)
      [] processor_type = "PyMuPDFProcessor" -> Min(max_procs, PyMuPDFConcurrencyCap)
      [] OTHER -> 1

SeqToSet(q) == {q[j] : j \in 1..Len(q)}

(* the processor groups of the running batch and the group being processed *)
Groups == GroupTypes(documents_with_metadata)

CurrentType == Groups[group_index]

CurrentDocs ==
    GroupDocs(documents_with_metadata, CurrentType, Len(documents_with_metadata))

CurrentConcurrency ==
    GetProcessorConcurrency(CurrentType, max_concurrent_documents,
                            max_concurrent_processors)

NewUnit ==
    [status |-> "pending", success |-> FALSE]

(* BatchProcessor.__init__ with the limits drawn from the bounds *)
BatchInit ==
    /\ max_concurrent_documents \in 1..MaxConcurrency
    /\ max_concurrent_processors \in 1..MaxConcurrency
    /\ bp_pc = "idle"
    /\ documents_with_metadata = << >>
    /\ cancelled = FALSE
    /\ processed_count = 0
    /\ cache_hits = 0
    /\ cache_misses = 0
    /\ group_index = 1
    /\ units = << >>
    /\ successful = << >>
    /\ failed = << >>
    /\ successful_results = << >>
    /\ failed_results = << >>

BatchQuiet ==
    /\ max_concurrent_documents = 1
    /\ max_concurrent_processors = 1
    /\ bp_pc = "idle"
    /\ documents_with_metadata = << >>
    /\ cancelled = FALSE
    /\ processed_count = 0
    /\ cache_hits = 0
    /\ cache_misses = 0
    /\ group_index = 1
    /\ units = << >>
    /\ successful = << >>
    /\ failed = << >>
    /\ successful_results = << >>
    /\ failed_results = << >>

limitVars == <<max_concurrent_documents, max_concurrent_processors>>
counterVars == <<processed_count, cache_hits, cache_misses>>

(* what process_document hands back to _process_single_document *)
ProcessDocumentReturns ==
    { [success |-> TRUE, from_cache |-> TRUE],
      [success |-> TRUE, from_cache |-> FALSE],
      [success |-> FALSE, from_cache |-> FALSE] }

(* the 'success' of the dict _process_single_document returns (lines        *)
(* 237-262): the success branch reads result.get('webhook_result', {}).get, *)
(* which raises AttributeError on the None webhook_result of a manager      *)
(* without webhook client; the except branch turns that into a failure      *)
SingleDocumentSuccess(result) == result.success /\ n8n_configured

(* process_batch, lines 76-94: reset the counters and the flag, group *)
StartBatch(items) ==
    /\ bp_pc = "idle"
    /\ documents_with_metadata' = items
    /\ units' = [i \in 1..Len(items) |-> NewUnit]
    /\ processed_count' = 0
    /\ cache_hits' = 0
    /\ cache_misses' = 0
    /\ cancelled' = FALSE
    /\ group_index' = 1
    /\ successful_results' = << >>
    /\ failed_results' = << >>
    /\ bp_pc' = "groups"
    /\ UNCHANGED <<limitVars, successful, failed>>
    /\ UNCHANGED outsideBatch

(* lines 97-99 and 112-128: the group loop ends (no group left, or the     *)
(* flag is set) and the BatchResult is returned                            *)
BatchReturn ==
    /\ bp_pc = "groups"
    /\ cancelled \/ group_index > Len(Groups)
    /\ bp_pc' = "done"
    /\ UNCHANGED <<limitVars, counterVars, documents_with_metadata, cancelled,
                   group_index, units, successful, failed, successful_results,
                   failed_results>>
    /\ UNCHANGED outsideBatch

(* lines 104-107 and 170-172: a group of concurrency 1 is run in the       *)
(* calling thread                                                          *)
EnterGroupSequential ==
    /\ bp_pc = "groups"
    /\ ~cancelled
    /\ group_index <= Len(Groups)
    /\ CurrentConcurrency = 1
    /\ successful' = << >>
    /\ failed' = << >>
    /\ bp_pc' = "sequential"
    /\ UNCHANGED <<limitVars, counterVars, documents_with_metadata, cancelled,
                   group_index, units, successful_results, failed_results>>
    /\ UNCHANGED outsideBatch

(* lines 182-187: every document of the group is submitted to a            *)
(* ThreadPoolExecutor(max_workers=concurrency)                             *)
EnterGroupPool ==
    /\ bp_pc = "groups"
    /\ ~cancelled
    /\ group_index <= Len(Groups)
    /\ CurrentConcurrency # 1
    /\ successful' = << >>
    /\ failed' = << >>
    /\ units' = [i \in DOMAIN units |->
                   IF i \in SeqToSet(CurrentDocs)
                   THEN [units[i] EXCEPT !.status = "queued"] ELSE units[i]]
    /\ bp_pc' = "as_completed"
    /\ UNCHANGED <<limitVars, counterVars, documents_with_metadata, cancelled,
                   group_index, successful_results, failed_results>>
    /\ UNCHANGED outsideBatch

(* lines 107-110: the group's lists are appended to the batch's *)
GroupReturn ==
    /\ successful_results' = successful_results \o successful
    /\ failed_results' = failed_results \o failed
    /\ group_index' = group_index + 1
    /\ bp_pc' = "groups"

(* the first document of the group that satisfies a status *)
FirstWith(status) ==
    LET at == {j \in 1..Len(CurrentDocs) : units[CurrentDocs[j]].status = status} IN
    IF at = {} THEN 0
    ELSE CurrentDocs[CHOOSE j \in at : \A k \in at : j <= k]

(* _process_single_document, lines 222-228: the counters, under the lock *)
CountUnit(result) ==
    /\ processed_count' = processed_count + 1
    /\ cache_hits' = IF result.from_cache THEN cache_hits + 1 ELSE cache_hits
    /\ cache_misses' = IF result.from_cache THEN cache_misses ELSE cache_misses + 1

(* Faulty variant of lines 176-179 / 196-199: a failed result is not kept *)
Collected_DropFailed(i, success) ==
    /\ successful' = IF success THEN Append(successful, i) ELSE successful
    /\ failed' = failed

(* lines 176-179 and 196-199: the result goes to one of the group's lists *)
Collected(i, success) ==
    /\ successful' = IF success THEN Append(successful, i) ELSE successful
    /\ failed' = IF success THEN failed ELSE Append(failed, i)

(* lines 172-175: the next document of a sequential group is started,      *)
(* the flag having been found unset                                        *)
SequentialStart ==
    /\ bp_pc = "sequential"
    /\ ~cancelled
    /\ FirstWith("running") = 0
    /\ FirstWith("pending") # 0
    /\ units' = [units EXCEPT ![FirstWith("pending")] =
                    [@ EXCEPT !.status = "running"]]
    /\ UNCHANGED <<limitVars, counterVars, documents_with_metadata, cancelled,
                   group_index, bp_pc, successful, failed, successful_results,
                   failed_results>>
    /\ UNCHANGED outsideBatch

(* lines 175-179: _process_single_document returns in the calling thread *)
SequentialFinish(result) ==
    LET i == FirstWith("running") IN
    /\ bp_pc = "sequential"
    /\ i # 0
    /\ CountUnit(result)
    /\ units' = [units EXCEPT ![i] =
                    [@ EXCEPT !.status = "collected",
                              !.success = SingleDocumentSuccess(result)]]
    /\ Collected(i, SingleDocumentSuccess(result))
    /\ UNCHANGED <<limitVars, documents_with_metadata, cancelled, group_index, bp_pc,
                   successful_results, failed_results>>
    /\ UNCHANGED outsideBatch

(* lines 172-174 and 211: the sequential loop ends, or breaks on the flag *)
SequentialReturn ==
    /\ bp_pc = "sequential"
    /\ FirstWith("running") = 0
    /\ cancelled \/ FirstWith("pending") = 0
    /\ GroupReturn
    /\ UNCHANGED <<limitVars, counterVars, documents_with_metadata, cancelled, units,
                   successful, failed>>
    /\ UNCHANGED outsideBatch

(* Faulty variant of the pool: a queued unit starts whatever the number of *)
(* units running                                                           *)
WorkerStart_Unbounded ==
    LET i == FirstWith("queued") IN
    /\ bp_pc \in {"as_completed", "shutdown"}
    /\ i # 0
    /\ units' = [units EXCEPT ![i] =
                    [@ EXCEPT !.status = "running"]]
    /\ UNCHANGED <<limitVars, counterVars, documents_with_metadata, cancelled,
                   group_index, bp_pc, successful, failed, successful_results,
                   failed_results>>
    /\ UNCHANGED outsideBatch

(* a pool thread takes the oldest queued work item; at most max_workers    *)
(* threads exist. The pool runs its queue whatever the flag says, also     *)
(* while the with-block is being left (shutdown(wait=True))                *)
WorkerStart ==
    LET i == FirstWith("queued") IN
    /\ bp_pc \in {"as_completed", "shutdown"}
    /\ i # 0
    /\ Cardinality({d \in SeqToSet(CurrentDocs) : units[d].status = "running"})
          < CurrentConcurrency
    /\ units' = [units EXCEPT ![i] =
                    [@ EXCEPT !.status = "running"]]
    /\ UNCHANGED <<limitVars, counterVars, documents_with_metadata, cancelled,
                   group_index, bp_pc, successful, failed, successful_results,
                   failed_results>>
    /\ UNCHANGED outsideBatch

(* _process_single_document returns in a pool thread: the future is done *)
WorkerFinish(i, result) ==
    /\ bp_pc \in {"as_completed", "shutdown"}
    /\ i \in DOMAIN units
    /\ units[i].status = "running"
    /\ CountUnit(result)
    /\ units' = [units EXCEPT ![i] =
                    [@ EXCEPT !.status = "done",
                              !.success = SingleDocumentSuccess(result)]]
    /\ UNCHANGED <<limitVars, documents_with_metadata, cancelled, group_index, bp_pc,
                   successful, failed, successful_results, failed_results>>
    /\ UNCHANGED outsideBatch

(* lines 190-199: as_completed yields a finished future; the loop breaks   *)
(* if the flag is set, else the result is collected                        *)
AsCompletedNext(i) ==
    /\ bp_pc = "as_completed"
    /\ i \in SeqToSet(CurrentDocs)
    /\ units[i].status = "done"
    /\ IF cancelled
       THEN /\ bp_pc' = "shutdown"
            /\ UNCHANGED <<units, successful, failed>>
       ELSE /\ bp_pc' = bp_pc
            /\ units' = [units EXCEPT ![i] = [@ EXCEPT !.status = "collected"]]
            /\ Collected(i, units[i].success)
    /\ UNCHANGED <<limitVars, counterVars, documents_with_metadata, cancelled,
                   group_index, successful_results, failed_results>>
    /\ UNCHANGED outsideBatch

(* as_completed is exhausted: every future has been yielded *)
AsCompletedEnd ==
    /\ bp_pc = "as_completed"
    /\ \A d \in SeqToSet(CurrentDocs) : units[d].status = "collected"
    /\ bp_pc' = "shutdown"
    /\ UNCHANGED <<limitVars, counterVars, documents_with_metadata, cancelled,
                   group_index, units, successful, failed, successful_results,
                   failed_results>>
    /\ UNCHANGED outsideBatch

(* the with-block is left once the pool has run all its work items;        *)
(* line 211 returns the group's lists                                      *)
PoolReturn ==
    /\ bp_pc = "shutdown"
    /\ \A d \in SeqToSet(CurrentDocs) : units[d].status \in {"done", "collected"}
    /\ GroupReturn
    /\ UNCHANGED <<limitVars, counterVars, documents_with_metadata, cancelled, units,
                   successful, failed>>
    /\ UNCHANGED outsideBatch

(* cancel_batch(), from another thread while process_batch runs *)
CancelBatch ==
    /\ bp_pc \notin {"idle", "done"}
    /\ ~cancelled
    /\ cancelled' = TRUE
    /\ UNCHANGED <<limitVars, counterVars, documents_with_metadata, group_index,
                   bp_pc, units, successful, failed, successful_results,
                   failed_results>>
    /\ UNCHANGED outsideBatch

BatchNext ==
    \/ \E items \in SeqsUpTo(BatchDocumentTypes, MaxItems) : StartBatch(items)
    \/ BatchReturn
    \/ EnterGroupSequential
    \/ EnterGroupPool
    \/ SequentialStart
    \/ \E r \in ProcessDocumentReturns : SequentialFinish(r)
    \/ SequentialReturn
    \/ WorkerStart
    \/ \E i \in 1..MaxItems, r \in ProcessDocumentReturns : WorkerFinish(i, r)
    \/ \E i \in 1..MaxItems : AsCompletedNext(i)
    \/ AsCompletedEnd
    \/ PoolReturn
    \/ CancelBatch

----------------------------------------------------------------------------
(* Cache key derivation: ResultCache._generate_cache_key as a function of   *)
(* its two arguments                                                        *)

MaxNames == 2

(* two objects of one content (same ETag) under different storage keys,    *)
(* and an object of other content                                          *)
KeyDocuments ==
    { [s3_key |-> "docs/a.pdf", filename |-> "a.pdf", etag |-> "abc123"],
      [s3_key |-> "copy/a2.pdf", filename |-> "a2.pdf", etag |-> "abc123"],
      [s3_key |-> "docs/b.pdf", filename |-> "b.pdf", etag |-> "def456"] }

KeyMetadata ==
    [document_type : SupportedDocumentTypes,
     machine_names : SeqsUpTo({"X1", "X2"}, MaxNames),
     basic : BOOLEAN,
     processing_method : {"markdown", "plain_text"}]

NoKeyCall == [called |-> FALSE]

KeyInit ==
    /\ key_call = NoKeyCall
    /\ key_prev = NoKeyCall

KeyQuiet ==
    /\ key_call = NoKeyCall
    /\ key_prev = NoKeyCall

(* a call of _generate_cache_key; the function keeps no state, so runs of   *)
(* two calls cover every comparison of two keys                             *)
GenerateKey(document, metadata) ==
    /\ ~key_prev.called
    /\ key_prev' = key_call
    /\ key_call' = [called |-> TRUE, document |-> document, metadata |-> metadata,
                    cache_key |-> GenerateCacheKey(document, metadata)]
    /\ UNCHANGED outsideKey

KeyNext == \E document \in KeyDocuments, metadata \in KeyMetadata :
              GenerateKey(document, metadata)

----------------------------------------------------------------------------
(* PDFChunker.chunk_pdf: the loop over the pages, one page per step. Sizes  *)
(* are in units of the ceiling's granularity.                               *)

MaxPages == 4
MaxPageSize == 3
MaxChunkSize == 2

(* the documents: every list of page sizes; the size of a page is the size *)
(* of a PDF holding that page alone (lines 62-70)                          *)
PdfDocuments == SeqsUpTo(1..MaxPageSize, MaxPages)

ChunkerInit ==
    /\ pdf_pages \in PdfDocuments
    /\ max_chunk_size_bytes \in 1..MaxChunkSize
    /\ chunk_pc = "loop"
    /\ page_num = 0
    /\ chunks = << >>
    /\ current_chunk_pages = << >>
    /\ current_chunk_size = 0
    /\ chunk_counter = 1
    /\ chunk_start_page = 0

ChunkerQuiet ==
    /\ pdf_pages = << >>
    /\ max_chunk_size_bytes = 1
    /\ chunk_pc = "idle"
    /\ page_num = 0
    /\ chunks = << >>
    /\ current_chunk_pages = << >>
    /\ current_chunk_size = 0
    /\ chunk_counter = 1
    /\ chunk_start_page = 0

total_pages == Len(pdf_pages)

(* the size of page page_num (0-based) written alone *)
page_size == pdf_pages[page_num + 1]

(* Faulty variant of _create_chunk: the page range is left 0-based *)
CreateChunk_ZeroBased(pages, chunk_number, start_page, end_page) ==
    [chunk_number |-> chunk_number,
     start_page |-> start_page,
     end_page |-> end_page,
     pages |-> pages]

(* _create_chunk: the ChunkInfo of the pages written to the chunk's PDF;   *)
(* chunk_id is <filename>_chunk_<chunk_number>                             *)
CreateChunk(pages, chunk_number, start_page, end_page) ==
    [chunk_number |-> chunk_number,
     start_page |-> start_page + 1,
     end_page |-> end_page + 1,
     pages |-> pages]

(* Faulty variant of line 73: a chunk may pass the limit by one unit *)
ExceedsLimit_Lenient ==
    current_chunk_size + page_size > max_chunk_size_bytes + 1
       /\ current_chunk_pages # << >>

(* Faulty variant of line 73: a page that would fill the chunk exactly     *)
(* already opens the next one                                              *)
ExceedsLimit_Eager ==
    current_chunk_size + page_size >= max_chunk_size_bytes
       /\ current_chunk_pages # << >>

(* Faulty variant of line 73: the size of the page at hand is not counted *)
ExceedsLimit_IgnoresPage ==
    current_chunk_size > max_chunk_size_bytes /\ current_chunk_pages # << >>

(* line 73: adding this page would exceed the limit *)
ExceedsLimit ==
    current_chunk_size + page_size > max_chunk_size_bytes
       /\ current_chunk_pages # << >>

(* lines 73-88: the open chunk is emitted and the page opens the next one *)
ChunkLoopNewChunk ==
    /\ chunk_pc = "loop"
    /\ page_num < total_pages
    /\ ExceedsLimit
    /\ chunks' = Append(chunks,
                        CreateChunk(current_chunk_pages, chunk_counter,
                                    chunk_start_page,
                                    chunk_start_page + Len(current_chunk_pages) - 1))
    /\ chunk_start_page' = page_num
    /\ current_chunk_pages' = <<page_num>>
    /\ current_chunk_size' = page_size
    /\ chunk_counter' = chunk_counter + 1
    /\ page_num' = page_num + 1
    /\ UNCHANGED <<pdf_pages, max_chunk_size_bytes, chunk_pc>>
    /\ UNCHANGED outsideChunker

(* lines 89-92: the page joins the open chunk *)
ChunkLoopAddPage ==
    /\ chunk_pc = "loop"
    /\ page_num < total_pages
    /\ ~ExceedsLimit
    /\ current_chunk_pages' = Append(current_chunk_pages, page_num)
    /\ current_chunk_size' = current_chunk_size + page_size
    /\ page_num' = page_num + 1
    /\ UNCHANGED <<pdf_pages, max_chunk_size_bytes, chunk_pc, chunks, chunk_counter,
                   chunk_start_page>>
    /\ UNCHANGED outsideChunker

(* lines 94-106: after the loop the open chunk, if any, is emitted and the *)
(* list is returned                                                        *)
ChunkFinal ==
    /\ chunk_pc = "loop"
    /\ page_num = total_pages
    /\ chunks' = IF current_chunk_pages # << >>
                 THEN Append(chunks,
                             CreateChunk(current_chunk_pages, chunk_counter,
                                         chunk_start_page,
                                         chunk_start_page + Len(current_chunk_pages) - 1))
                 ELSE chunks
    /\ chunk_pc' = "done"
    /\ UNCHANGED <<pdf_pages, max_chunk_size_bytes, page_num, current_chunk_pages,
                   current_chunk_size, chunk_counter, chunk_start_page>>
    /\ UNCHANGED outsideChunker

ChunkerNext ==
    \/ ChunkLoopNewChunk
    \/ ChunkLoopAddPage
    \/ ChunkFinal

----------------------------------------------------------------------------
(* DataLabsProcessor._process_chunked_document: the loop over the chunks    *)
(* with its retry loop, then ChunkProcessor.combine_chunk_results           *)

MaxChunks == 3
MaxChunkPages == 2
MaxReturnedPages == 2

(* line 154 *)
max_chunk_retries == 2

RECURSIVE SumSeq(_)
SumSeq(q) == IF q = << >> THEN 0 ELSE Head(q) + SumSeq(Tail(q))

(* the ChunkInfo list of a document cut into chunks of the given page      *)
(* counts: consecutive 1-based page ranges, as chunk_pdf numbers them      *)
ChunkInfos(page_counts) ==
    [i \in DOMAIN page_counts |->
        [chunk_id |-> i,
         start_page |-> SumSeq(SubSeq(page_counts, 1, i - 1)) + 1,
         end_page |-> SumSeq(SubSeq(page_counts, 1, i))]]

ChunkLayouts == SeqsUpTo(1..MaxChunkPages, MaxChunks)

NoCombinedResult ==
    [pages |-> << >>, success |-> FALSE, total_chunks |-> 0,
     successful_chunks |-> 0, failed_chunks |-> 0, error_details |-> << >>]

ChunkedInit ==
    /\ cd_chunks \in {ChunkInfos(page_counts) : page_counts \in ChunkLayouts}
    /\ cd_pc = "chunks"
    /\ chunk_index = 1
    /\ retry_attempt = 0
    /\ attempts = [i \in DOMAIN cd_chunks |-> << >>]
    /\ chunk_results = << >>
    /\ combined_result = NoCombinedResult

ChunkedQuiet ==
    /\ cd_chunks = << >>
    /\ cd_pc = "idle"
    /\ chunk_index = 1
    /\ retry_attempt = 0
    /\ attempts = << >>
    /\ chunk_results = << >>
    /\ combined_result = NoCombinedResult

(* lines 235-241: the page count of the original PDF; 0 stands for None    *)
(* (both are falsy in combine_chunk_results)                               *)
expected_page_count ==
    IF cd_chunks = << >> THEN 0 ELSE cd_chunks[Len(cd_chunks)].end_page

(* lines 195-204: the chunk's result with its chunk_info; `pages` is the   *)
(* number of page sections _parse_datalabs_result made of the response.    *)
(* has_chunk_details: processing_info carries 'chunk_details'; the results *)
(* of _process_single_document (lines 114 and 121-135) carry none          *)
ChunkResult(success, pages) ==
    [success |-> success, pages |-> pages,
     chunk_info |-> cd_chunks[chunk_index],
     has_chunk_details |-> FALSE]

(* lines 170-174: _process_single_document returned a successful result *)
AttemptSucceeds(pages) ==
    /\ cd_pc = "chunks"
    /\ chunk_index <= Len(cd_chunks)
    /\ attempts' = [attempts EXCEPT ![chunk_index] = Append(@, "success")]
    /\ chunk_results' = Append(chunk_results, ChunkResult(TRUE, pages))
    /\ chunk_index' = chunk_index + 1
    /\ retry_attempt' = 0
    /\ UNCHANGED <<cd_chunks, cd_pc, combined_result>>
    /\ UNCHANGED outsideChunked

(* Faulty variant of lines 175-184: the document is given up when a chunk  *)
(* has failed its last attempt                                             *)
AttemptFails_AbortsOnExhaustion ==
    /\ cd_pc = "chunks"
    /\ chunk_index <= Len(cd_chunks)
    /\ attempts' = [attempts EXCEPT ![chunk_index] = Append(@, "failure")]
    /\ IF retry_attempt < max_chunk_retries - 1
       THEN /\ retry_attempt' = retry_attempt + 1
            /\ UNCHANGED <<chunk_results, chunk_index, cd_pc>>
       ELSE /\ chunk_results' = Append(chunk_results, ChunkResult(FALSE, 0))
            /\ cd_pc' = "combine"
            /\ chunk_index' = Len(cd_chunks) + 1
            /\ retry_attempt' = 0
    /\ UNCHANGED <<cd_chunks, combined_result>>
    /\ UNCHANGED outsideChunked

(* lines 175-184: _process_single_document returned a failed result (it    *)
(* catches every exception itself, lines 118-135): another attempt after   *)
(* the backoff, or the failed result is used                               *)
AttemptFails ==
    /\ cd_pc = "chunks"
    /\ chunk_index <= Len(cd_chunks)
    /\ attempts' = [attempts EXCEPT ![chunk_index] = Append(@, "failure")]
    /\ IF retry_attempt < max_chunk_retries - 1
       THEN /\ retry_attempt' = retry_attempt + 1
            /\ UNCHANGED <<chunk_results, chunk_index>>
       ELSE /\ chunk_results' = Append(chunk_results, ChunkResult(FALSE, 0))
            /\ chunk_index' = chunk_index + 1
            /\ retry_attempt' = 0
    /\ UNCHANGED <<cd_chunks, cd_pc, combined_result>>
    /\ UNCHANGED outsideChunked

(* Faulty variant of lines 234-245: the pages keep the numbers they have   *)
(* within their chunk                                                      *)
OriginalPageNum_WithinChunk(chunk_info, j, max_expected_pages) ==
    IF max_expected_pages # 0 /\ j + 1 > max_expected_pages
    THEN Min(j + 1, max_expected_pages)
    ELSE j + 1

(* combine_chunk_results, lines 234-245: the number given to page j        *)
(* (0-based) of a chunk                                                    *)
OriginalPageNum(chunk_info, j, max_expected_pages) ==
    IF max_expected_pages # 0 /\ chunk_info.start_page + j > max_expected_pages
    THEN Min(chunk_info.start_page + j, max_expected_pages)
    ELSE chunk_info.start_page + j

(* lines 229-264: the pages of a successful chunk, renumbered *)
RemappedPages(chunk_result, max_expected_pages) ==
    [p \in 1..chunk_result.pages |->
        LET original_page_num ==
               OriginalPageNum(chunk_result.chunk_info, p - 1, max_expected_pages)
        IN [page_number |-> original_page_num,
            page_id |-> <<"page", original_page_num>>,
            chunk_info |-> [chunk_id |-> chunk_result.chunk_info.chunk_id,
                            chunk_page_number |-> p,
                            original_page_number |-> original_page_num]]]

(* lines 218-275: combined_pages over all chunk results *)
RECURSIVE CombinedPages(_, _)
CombinedPages(results, max_expected_pages) ==
    IF results = << >> THEN << >>
    ELSE (IF Head(results).success
          THEN RemappedPages(Head(results), max_expected_pages)
          ELSE << >>)
         \o CombinedPages(Tail(results), max_expected_pages)

(* combine_chunk_results, lines 317-329: one item of error_details per     *)
(* failed chunk result i.  page_range is chunk_details['page_range'] when  *)
(* the result has chunk_details and the text "chunk i" otherwise           *)
(* (names_pages FALSE); chunk_info is read at line 322 and not used        *)
ErrorDetail(results, i) ==
    [chunk_number |-> i,
     names_pages |-> results[i].has_chunk_details,
     start_page |-> IF results[i].has_chunk_details
                    THEN results[i].chunk_info.start_page ELSE 0,
     end_page |-> IF results[i].has_chunk_details
                  THEN results[i].chunk_info.end_page ELSE 0]

RECURSIVE ErrorDetailsFrom(_, _)
ErrorDetailsFrom(results, i) ==
    IF i > Len(results) THEN << >>
    ELSE (IF results[i].success THEN << >> ELSE <<ErrorDetail(results, i)>>)
         \o ErrorDetailsFrom(results, i + 1)

ErrorDetails(results) == ErrorDetailsFrom(results, 1)

(* Faulty variant of combine_chunk_results: one successful chunk is enough *)
(* for overall success                                                     *)
CombineChunkResults_AnySuccess(results, max_expected_pages) ==
    LET successful_chunks == Cardinality({i \in DOMAIN results : results[i].success})
        failed_chunks == Cardinality({i \in DOMAIN results : ~results[i].success})
    IN IF results = << >> THEN NoCombinedResult
       ELSE [pages |-> CombinedPages(results, max_expected_pages),
             success |-> successful_chunks > 0,
             total_chunks |-> Len(results),
             successful_chunks |-> successful_chunks,
             failed_chunks |-> failed_chunks,
             error_details |-> ErrorDetails(results)]

(* ChunkProcessor.combine_chunk_results *)
CombineChunkResults(results, max_expected_pages) ==
    LET successful_chunks == Cardinality({i \in DOMAIN results : results[i].success})
        failed_chunks == Cardinality({i \in DOMAIN results : ~results[i].success})
    IN IF results = << >> THEN NoCombinedResult
       ELSE [pages |-> CombinedPages(results, max_expected_pages),
             success |-> successful_chunks > 0 /\ failed_chunks = 0,
             total_chunks |-> Len(results),
             successful_chunks |-> successful_chunks,
             failed_chunks |-> failed_chunks,
             error_details |-> ErrorDetails(results)]

(* lines 235-251: the chunk loop is over; the results are combined and     *)
(* returned                                                                *)
CombineAndReturn ==
    /\ cd_pc \in {"chunks", "combine"}
    /\ chunk_index > Len(cd_chunks)
    /\ combined_result' = CombineChunkResults(chunk_results, expected_page_count)
    /\ cd_pc' = "done"
    /\ UNCHANGED <<cd_chunks, chunk_index, retry_attempt, attempts, chunk_results>>
    /\ UNCHANGED outsideChunked

ChunkedNext ==
    \/ \E pages \in 1..MaxReturnedPages : AttemptSucceeds(pages)
    \/ AttemptFails
    \/ CombineAndReturn

----------------------------------------------------------------------------
(* DataLabsProcessor._poll_for_completion: one action per way an iteration *)
(* of the polling loop can go.  Time is counted in units of                *)
(* self.poll_interval, so every time.sleep(self.poll_interval) adds 1.     *)

MaxPollTimeout == 3
MaxCheckDuration == 1

PollInit ==
    /\ poll_timeout \in 1..MaxPollTimeout
    /\ poll_pc = "polling"
    /\ poll_elapsed = 0
    /\ poll_responses = << >>
    /\ poll_outcome = "none"

PollQuiet ==
    /\ poll_timeout = 1
    /\ poll_pc = "idle"
    /\ poll_elapsed = 0
    /\ poll_responses = << >>
    /\ poll_outcome = "none"

(* lines 353-356: the loop condition holds and a status check is made,     *)
(* which comes back with `response`                                        *)
CheckMade(response) ==
    /\ poll_pc = "polling"
    /\ poll_elapsed < poll_timeout
    /\ poll_responses' = Append(poll_responses, response)
    /\ UNCHANGED poll_timeout

(* lines 359-361: status complete, the result is returned *)
StatusComplete(duration) ==
    /\ CheckMade("complete")
    /\ poll_elapsed' = poll_elapsed + duration
    /\ poll_pc' = "returned"
    /\ poll_outcome' = "result"
    /\ UNCHANGED outsidePoll

(* lines 363-365 followed by the handler of lines 375-384: the exception   *)
(* raised for status failed is caught by the loop's own except clause,     *)
(* which re-raises it only when its text (with the job's error message in  *)
(* it) holds the words "circuit breaker"; otherwise it sleeps and the loop *)
(* goes on                                                                 *)
StatusFailed(error_mentions_breaker, duration) ==
    /\ CheckMade("failed")
    /\ IF error_mentions_breaker
       THEN /\ poll_elapsed' = poll_elapsed + duration
            /\ poll_pc' = "raised"
            /\ poll_outcome' = "circuit_breaker_open"
       ELSE /\ poll_elapsed' = poll_elapsed + duration + 1
            /\ UNCHANGED <<poll_pc, poll_outcome>>
    /\ UNCHANGED outsidePoll

(* lines 367-373: status processing, or any other status: sleep and go on *)
StatusPending(status, duration) ==
    /\ status \in {"processing", "unknown"}
    /\ CheckMade(status)
    /\ poll_elapsed' = poll_elapsed + duration + 1
    /\ UNCHANGED <<poll_pc, poll_outcome>>
    /\ UNCHANGED outsidePoll

(* lines 345-346 and 375-384: the status check raised (HTTP status other   *)
(* than 200, network error): sleep and go on                               *)
CheckRaises(duration) ==
    /\ CheckMade("http_error")
    /\ poll_elapsed' = poll_elapsed + duration + 1
    /\ UNCHANGED <<poll_pc, poll_outcome>>
    /\ UNCHANGED outsidePoll

(* circuit_breaker.py lines 101-102 and lines 380-382: the breaker is open *)
(* and rejects the check; polling stops with an error                      *)
CheckRejected ==
    /\ CheckMade("breaker_open")
    /\ poll_pc' = "raised"
    /\ poll_outcome' = "circuit_breaker_open"
    /\ UNCHANGED poll_elapsed
    /\ UNCHANGED outsidePoll

(* lines 353 and 386: the loop condition fails; the timeout error *)
PollTimesOut ==
    /\ poll_pc = "polling"
    /\ poll_elapsed >= poll_timeout
    /\ poll_pc' = "raised"
    /\ poll_outcome' = "timed_out"
    /\ UNCHANGED <<poll_timeout, poll_elapsed, poll_responses>>
    /\ UNCHANGED outsidePoll

PollNext ==
    \/ \E duration \in 0..MaxCheckDuration : StatusComplete(duration)
    \/ \E error_mentions_breaker \in BOOLEAN, duration \in 0..MaxCheckDuration :
          StatusFailed(error_mentions_breaker, duration)
    \/ \E status \in {"processing", "unknown"}, duration \in 0..MaxCheckDuration :
          StatusPending(status, duration)
    \/ \E duration \in 0..MaxCheckDuration : CheckRaises(duration)
    \/ CheckRejected
    \/ PollTimesOut

----------------------------------------------------------------------------
(* ResultCache used from several worker threads: the class holds no lock,  *)
(* so the operations interleave at each access to self._memory_cache.  One *)
(* action per access; the disk file goes with the memory entry.            *)

MaxThreadOps == 3

(* worker threads of the pool of _process_processor_group *)
CacheThreads == {"w1", "w2"}

(* the metadata of the threads' requests *)
ThreadMetadata ==
    [document_type |-> "manual", machine_names |-> <<"X1">>, basic |-> FALSE]

IdleThread ==
    [pc |-> "idle", op |-> "none", document |-> CHOOSE d \in Documents : TRUE,
     dict_size |-> 0, remaining |-> {}, to_remove |-> {}, ret |-> "none"]

CacheThreadsInit ==
    /\ cache_threads = [t \in CacheThreads |-> IdleThread]
    /\ thread_ops = 0

CacheThreadsQuiet ==
    /\ cache_threads = [t \in CacheThreads |-> IdleThread]
    /\ thread_ops = 0

cacheFrame == <<max_age_hours, disk_writable, cache_now, cache_ops, cache_ret, last_set>>

(* a thread enters a cache operation *)
Enters(t) ==
    /\ cache_threads[t].pc = "idle"
    /\ thread_ops < MaxThreadOps
    /\ thread_ops' = thread_ops + 1

(* get(), line 108: `cache_key in self._memory_cache` *)
ThreadGetContains(t, document) ==
    LET key == GenerateCacheKey(document, ThreadMetadata) IN
    /\ Enters(t)
    /\ cache_threads' =
         [cache_threads EXCEPT ![t] =
            IF key \in DOMAIN memory_cache
            THEN [IdleThread EXCEPT !.pc = "get_subscript", !.op = "get",
                                    !.document = document]
            ELSE [IdleThread EXCEPT !.op = "get", !.document = document,
                                    !.ret = "None"]]
    /\ UNCHANGED <<memory_cache, disk_cache>>
    /\ UNCHANGED cacheFrame
    /\ UNCHANGED outsideCacheThreads

(* get(), lines 109-124: `self._memory_cache[cache_key]` raises KeyError    *)
(* when the key has gone since line 108; else the entry read is checked    *)
ThreadGetSubscript(t) ==
    LET me == cache_threads[t]
        key == GenerateCacheKey(me.document, ThreadMetadata)
    IN
    /\ me.pc = "get_subscript"
    /\ cache_threads' =
         [cache_threads EXCEPT ![t] =
            IF key \notin DOMAIN memory_cache
            THEN [me EXCEPT !.pc = "idle", !.ret = "KeyError"]
            ELSE IF \/ IsExpired(memory_cache[key])
                    \/ memory_cache[key].document_etag # me.document.etag
                 THEN [me EXCEPT !.pc = "get_invalidate"]
                 ELSE [me EXCEPT !.pc = "idle",
                                 !.ret = memory_cache[key].processing_result.tag]]
    /\ UNCHANGED <<memory_cache, disk_cache, thread_ops>>
    /\ UNCHANGED cacheFrame
    /\ UNCHANGED outsideCacheThreads

(* get(), lines 114-115 and 120-121: _invalidate_entry, then None *)
ThreadGetInvalidate(t) ==
    LET me == cache_threads[t]
        key == GenerateCacheKey(me.document, ThreadMetadata)
    IN
    /\ me.pc = "get_invalidate"
    /\ memory_cache' = Without(memory_cache, {key})
    /\ disk_cache' = Without(disk_cache, {key})
    /\ cache_threads' = [cache_threads EXCEPT ![t] = [me EXCEPT !.pc = "idle", !.ret = "None"]]
    /\ UNCHANGED thread_ops
    /\ UNCHANGED cacheFrame
    /\ UNCHANGED outsideCacheThreads

(* set(), lines 129-158 *)
ThreadSet(t, document, processing_result, processor_used) ==
    /\ Enters(t)
    /\ memory_cache' =
         MemoryAfterSet(document, ThreadMetadata, processing_result, processor_used)
    /\ disk_cache' =
         DiskAfterSet(document, ThreadMetadata, processing_result, processor_used)
    /\ cache_threads' =
         [cache_threads EXCEPT ![t] =
            [IdleThread EXCEPT !.op = "set", !.document = document, !.ret = "None"]]
    /\ UNCHANGED cacheFrame
    /\ UNCHANGED outsideCacheThreads

(* cleanup_expired (line 195) and invalidate_document (line 179): the for  *)
(* loop takes an iterator of self._memory_cache.items(), which remembers   *)
(* the size of the dict                                                    *)
ThreadScanStart(t, op, document) ==
    /\ op \in {"cleanup_expired", "invalidate_document"}
    /\ Enters(t)
    /\ cache_threads' =
         [cache_threads EXCEPT ![t] =
            [IdleThread EXCEPT !.pc = "scan", !.op = op, !.document = document,
                               !.dict_size = Cardinality(DOMAIN memory_cache),
                               !.remaining = DOMAIN memory_cache]]
    /\ UNCHANGED <<memory_cache, disk_cache>>
    /\ UNCHANGED cacheFrame
    /\ UNCHANGED outsideCacheThreads

(* the keys the scan is after: lines 196-197, lines 180-181 *)
ScanSelects(me, key) ==
    IF me.op = "cleanup_expired" THEN IsExpired(memory_cache[key])
    ELSE memory_cache[key].document_etag = me.document.etag

(* one round of the for loop: the iterator raises RuntimeError (dictionary *)
(* changed size during iteration) when the dict has another size than at   *)
(* the start of the loop, else it hands out the next item or ends the loop *)
ThreadScanNext(t) ==
    LET me == cache_threads[t]
        left == me.remaining \cap DOMAIN memory_cache
    IN
    /\ me.pc = "scan"
    /\ IF Cardinality(DOMAIN memory_cache) # me.dict_size
       THEN cache_threads' =
              [cache_threads EXCEPT ![t] = [me EXCEPT !.pc = "idle", !.ret = "RuntimeError"]]
       ELSE IF left = {}
       THEN cache_threads' = [cache_threads EXCEPT ![t] = [me EXCEPT !.pc = "scan_remove"]]
       ELSE \E key \in left :
              cache_threads' =
                [cache_threads EXCEPT ![t] =
                   [me EXCEPT !.remaining = left \ {key},
                              !.to_remove = IF ScanSelects(me, key)
                                            THEN @ \cup {key} ELSE @]]
    /\ UNCHANGED <<memory_cache, disk_cache, thread_ops>>
    /\ UNCHANGED cacheFrame
    /\ UNCHANGED outsideCacheThreads

(* lines 199-200 and 183-184: _invalidate_entry for each key collected *)
ThreadScanRemove(t) ==
    LET me == cache_threads[t] IN
    /\ me.pc = "scan_remove"
    /\ memory_cache' = Without(memory_cache, me.to_remove)
    /\ disk_cache' = Without(disk_cache, me.to_remove)
    /\ cache_threads' = [cache_threads EXCEPT ![t] = [me EXCEPT !.pc = "idle", !.ret = "done"]]
    /\ UNCHANGED thread_ops
    /\ UNCHANGED cacheFrame
    /\ UNCHANGED outsideCacheThreads

CacheThreadsNext ==
    \/ \E t \in CacheThreads, d \in Documents : ThreadGetContains(t, d)
    \/ \E t \in CacheThreads : ThreadGetSubscript(t)
    \/ \E t \in CacheThreads : ThreadGetInvalidate(t)
    \/ \E t \in CacheThreads, d \in Documents, i \in CacheSetInputs :
          ThreadSet(t, d, i.result, i.processor)
    \/ \E t \in CacheThreads, d \in Documents,
          op \in {"cleanup_expired", "invalidate_document"} :
          ThreadScanStart(t, op, d)
    \/ \E t \in CacheThreads : ThreadScanNext(t)
    \/ \E t \in CacheThreads : ThreadScanRemove(t)
    \/ CacheTick

----------------------------------------------------------------------------
(* CircuitBreakerManager.get_circuit_breaker called from several threads:  *)
(* the method takes no lock, so the threads interleave at each access to   *)
(* self._circuit_breakers.  Instances are told apart by their number.      *)

MaxInstances == 4

(* threads that look breakers up *)
LookupThreads == {"t1", "t2"}

(* 'datalabs_api' (datalabs_processor.py line 47) and a second name *)
BreakerNames == {"datalabs_api", "webhook"}

IdleLookup == [pc |-> "idle", name |-> "datalabs_api"]

(* CircuitBreakerManager.__new__: an empty registry *)
RegistryInit ==
    /\ circuit_breakers = << >>
    /\ lookups = [t \in LookupThreads |-> IdleLookup]
    /\ instances_created = 0
    /\ handles = [name \in BreakerNames |-> {}]

RegistryQuiet ==
    /\ circuit_breakers = << >>
    /\ lookups = [t \in LookupThreads |-> IdleLookup]
    /\ instances_created = 0
    /\ handles = [name \in BreakerNames |-> {}]

(* line 264: `if name not in self._circuit_breakers` *)
LookupContains(t, name) ==
    /\ lookups[t].pc = "idle"
    /\ instances_created < MaxInstances
    /\ lookups' = [lookups EXCEPT ![t] =
                     [pc |-> IF name \in DOMAIN circuit_breakers THEN "return"
                             ELSE "create",
                      name |-> name]]
    /\ UNCHANGED <<circuit_breakers, instances_created, handles>>
    /\ UNCHANGED outsideRegistry

(* line 265: a new CircuitBreaker is constructed and stored under the      *)
(* name, whatever is stored there by now                                   *)
LookupCreate(t) ==
    /\ lookups[t].pc = "create"
    /\ instances_created' = instances_created + 1
    /\ circuit_breakers' =
         WithEntry(circuit_breakers, lookups[t].name, instances_created + 1)
    /\ lookups' = [lookups EXCEPT ![t].pc = "return"]
    /\ UNCHANGED handles
    /\ UNCHANGED outsideRegistry

(* line 266: `return self._circuit_breakers[name]` *)
LookupReturn(t) ==
    LET name == lookups[t].name IN
    /\ lookups[t].pc = "return"
    /\ handles' = [handles EXCEPT ![name] = @ \cup {circuit_breakers[name]}]
    /\ lookups' = [lookups EXCEPT ![t].pc = "idle"]
    /\ UNCHANGED <<circuit_breakers, instances_created>>
    /\ UNCHANGED outsideRegistry

RegistryNext ==
    \/ \E t \in LookupThreads, name \in BreakerNames : LookupContains(t, name)
    \/ \E t \in LookupThreads : LookupCreate(t)
    \/ \E t \in LookupThreads : LookupReturn(t)

----------------------------------------------------------------------------
(* ProcessingQueue: add_task, the worker coroutines and cancel_task.       *)
(* process_single_task has no await in it, so a worker runs from the pop   *)
(* of a task to the end of its processing without yielding to the event    *)
(* loop; cancel_task reaches a task that is being processed from the       *)
(* progress callback (called at lines 238-239, before process_document)    *)
(* or from another thread (the dashboard's).                               *)

MaxTasks == 2
MaxCancels == 2

(* the worker coroutines start() creates (max_workers of them) *)
QueueWorkers == {"w1", "w2"}

Priorities == {0, 1}

NoTask == 0

IdleWorker == [pc |-> "idle", task_id |-> NoTask, must_cancel |-> FALSE]

(* ProcessingQueue.__init__ followed by start() *)
QueueInit ==
    /\ tasks = << >>
    /\ pending_queue = << >>
    /\ processing_tasks = << >>
    /\ completed_tasks = << >>
    /\ failed_tasks = << >>
    /\ stats = [total_tasks |-> 0, completed_tasks |-> 0, failed_tasks |-> 0,
                cancelled_tasks |-> 0]
    /\ workers = [w \in QueueWorkers |-> IdleWorker]
    /\ cancel_accepted = {}

QueueQuiet ==
    /\ tasks = << >>
    /\ pending_queue = << >>
    /\ processing_tasks = << >>
    /\ completed_tasks = << >>
    /\ failed_tasks = << >>
    /\ stats = [total_tasks |-> 0, completed_tasks |-> 0, failed_tasks |-> 0,
                cancelled_tasks |-> 0]
    /\ workers = [w \in QueueWorkers |-> IdleWorker]
    /\ cancel_accepted = {}

(* lines 132-135: append, then the stable sort by priority, highest first: *)
(* the new id comes after the ids of at least its priority                 *)
SortedByPriority(queue, task_id, priority) ==
    LET ahead == {j \in 1..Len(queue) : tasks[queue[j]].priority >= priority}
        k == Cardinality(ahead)
    IN SubSeq(queue, 1, k) \o <<task_id>> \o SubSeq(queue, k + 1, Len(queue))

(* add_task; task ids are unique, they are numbered in order of creation *)
AddTask(priority) ==
    LET task_id == stats.total_tasks + 1 IN
    /\ stats.total_tasks < MaxTasks
    /\ tasks' = WithEntry(tasks, task_id, [status |-> "pending", priority |-> priority])
    /\ pending_queue' = SortedByPriority(pending_queue, task_id, priority)
    /\ stats' = [stats EXCEPT !.total_tasks = @ + 1]
    /\ UNCHANGED <<processing_tasks, completed_tasks, failed_tasks, workers,
                   cancel_accepted>>
    /\ UNCHANGED outsideQueue

(* worker, lines 311-317, and process_single_task, lines 230-239: the head *)
(* of the queue is popped, entered into processing_tasks and marked        *)
(* PROCESSING; the progress callback is called                             *)
WorkerTake(w) ==
    LET task_id == Head(pending_queue) IN
    /\ workers[w].pc = "idle"
    /\ pending_queue # << >>
    /\ pending_queue' = Tail(pending_queue)
    /\ processing_tasks' = WithEntry(processing_tasks, task_id, w)
    /\ tasks' = [tasks EXCEPT ![task_id].status = "processing"]
    /\ workers' = [workers EXCEPT ![w].pc = "processing", ![w].task_id = task_id]
    /\ UNCHANGED <<completed_tasks, failed_tasks, stats, cancel_accepted>>
    /\ UNCHANGED outsideQueue

(* process_single_task, lines 241-293, and worker, lines 319-320:          *)
(* process_document has returned a successful result ("completed"), or a   *)
(* failed one, or an exception was caught ("failed"); the status, the      *)
(* list and the statistics are written and the task leaves                 *)
(* processing_tasks                                                        *)
FinishTask(w, outcome) ==
    LET task_id == workers[w].task_id IN
    /\ workers[w].pc = "processing"
    /\ tasks' = [tasks EXCEPT ![task_id].status = outcome]
    /\ completed_tasks' = IF outcome = "completed"
                          THEN Append(completed_tasks, task_id) ELSE completed_tasks
    /\ failed_tasks' = IF outcome = "failed"
                       THEN Append(failed_tasks, task_id) ELSE failed_tasks
    /\ stats' = IF outcome = "completed"
                THEN [stats EXCEPT !.completed_tasks = @ + 1]
                ELSE [stats EXCEPT !.failed_tasks = @ + 1]
    /\ processing_tasks' = Without(processing_tasks, {task_id})
    /\ workers' = [workers EXCEPT ![w].pc = "idle", ![w].task_id = NoTask]
    /\ UNCHANGED <<pending_queue, cancel_accepted>>
    /\ UNCHANGED outsideQueue

(* worker, lines 306-308: with nothing pending the worker awaits           *)
(* asyncio.sleep, where a pending Task.cancel() raises CancelledError: the *)
(* coroutine ends (CancelledError is no Exception since Python 3.8) or,    *)
(* on older interpreters, line 322 catches it and the loop goes on         *)
WorkerSleepCancelled(w, caught) ==
    /\ workers[w].pc = "idle"
    /\ workers[w].must_cancel
    /\ pending_queue = << >>
    /\ workers' = [workers EXCEPT ![w].pc = IF caught THEN "idle" ELSE "stopped",
                                  ![w].must_cancel = FALSE]
    /\ UNCHANGED <<tasks, pending_queue, processing_tasks, completed_tasks,
                   failed_tasks, stats, cancel_accepted>>
    /\ UNCHANGED outsideQueue

(* cancel_task, lines 389-395: the task is pending; returns True *)
CancelPending(task_id) ==
    /\ task_id \in DOMAIN tasks
    /\ task_id \in SeqToSet(pending_queue)
    /\ stats.cancelled_tasks < MaxCancels
    /\ pending_queue' = SelectSeq(pending_queue, LAMBDA id : id # task_id)
    /\ tasks' = [tasks EXCEPT ![task_id].status = "cancelled"]
    /\ stats' = [stats EXCEPT !.cancelled_tasks = @ + 1]
    /\ cancel_accepted' = cancel_accepted \cup {task_id}
    /\ UNCHANGED <<processing_tasks, completed_tasks, failed_tasks, workers>>
    /\ UNCHANGED outsideQueue

(* cancel_task, lines 397-404: the task is in processing_tasks; the        *)
(* worker's asyncio task is cancelled, which takes effect at its next      *)
(* await; returns True                                                     *)
CancelProcessing(task_id) ==
    /\ task_id \in DOMAIN tasks
    /\ task_id \notin SeqToSet(pending_queue)
    /\ task_id \in DOMAIN processing_tasks
    /\ stats.cancelled_tasks < MaxCancels
    /\ workers' = [workers EXCEPT ![processing_tasks[task_id]].must_cancel = TRUE]
    /\ tasks' = [tasks EXCEPT ![task_id].status = "cancelled"]
    /\ stats' = [stats EXCEPT !.cancelled_tasks = @ + 1]
    /\ cancel_accepted' = cancel_accepted \cup {task_id}
    /\ UNCHANGED <<pending_queue, processing_tasks, completed_tasks, failed_tasks>>
    /\ UNCHANGED outsideQueue

QueueNext ==
    \/ \E priority \in Priorities : AddTask(priority)
    \/ \E w \in QueueWorkers : WorkerTake(w)
    \/ \E w \in QueueWorkers, outcome \in {"completed", "failed"} : FinishTask(w, outcome)
    \/ \E w \in QueueWorkers, caught \in BOOLEAN : WorkerSleepCancelled(w, caught)
    \/ \E task_id \in 1..MaxTasks : CancelPending(task_id)
    \/ \E task_id \in 1..MaxTasks : CancelProcessing(task_id)

----------------------------------------------------------------------------
(* Specifications *)

InitBreaker == BreakerInit /\ CacheQuiet /\ DmQuiet /\ BatchQuiet /\ KeyQuiet /\ ChunkerQuiet /\ ChunkedQuiet /\ PollQuiet /\ CacheThreadsQuiet /\ RegistryQuiet /\ QueueQuiet

SpecBreaker == InitBreaker /\ [][BreakerNext]_vars

InitCache == CacheInit /\ BreakerQuiet /\ DmQuiet /\ BatchQuiet /\ KeyQuiet /\ ChunkerQuiet /\ ChunkedQuiet /\ PollQuiet /\ CacheThreadsQuiet /\ RegistryQuiet /\ QueueQuiet

SpecCache == InitCache /\ [][CacheNext]_vars

InitDocMgr == CacheInit /\ DmInit /\ BreakerQuiet /\ BatchQuiet /\ KeyQuiet /\ ChunkerQuiet /\ ChunkedQuiet /\ PollQuiet /\ CacheThreadsQuiet /\ RegistryQuiet /\ QueueQuiet

SpecDocMgr == InitDocMgr /\ [][DmNext]_vars

(* the batch scheduler, over a document manager with or without webhook    *)
(* client whose process_document results are drawn from                    *)
(* ProcessDocumentReturns                                                  *)
InitBatch ==
    /\ BatchInit /\ BreakerQuiet /\ CacheQuiet
    /\ n8n_configured \in BOOLEAN /\ dm_prev = << >> /\ dm_last = NoReturn /\ KeyQuiet /\ ChunkerQuiet /\ ChunkedQuiet /\ PollQuiet /\ CacheThreadsQuiet /\ RegistryQuiet /\ QueueQuiet

SpecBatch == InitBatch /\ [][BatchNext]_vars

InitKey == KeyInit /\ BreakerQuiet /\ CacheQuiet /\ DmQuiet /\ BatchQuiet /\ ChunkerQuiet /\ ChunkedQuiet /\ PollQuiet /\ CacheThreadsQuiet /\ RegistryQuiet /\ QueueQuiet

SpecKey == InitKey /\ [][KeyNext]_vars

InitChunker ==
    ChunkerInit /\ BreakerQuiet /\ CacheQuiet /\ DmQuiet /\ BatchQuiet /\ KeyQuiet /\ ChunkedQuiet /\ PollQuiet /\ CacheThreadsQuiet /\ RegistryQuiet /\ QueueQuiet

SpecChunker == InitChunker /\ [][ChunkerNext]_vars

InitChunked ==
    ChunkedInit /\ BreakerQuiet /\ CacheQuiet /\ DmQuiet /\ BatchQuiet /\ KeyQuiet
       /\ ChunkerQuiet /\ PollQuiet /\ CacheThreadsQuiet /\ RegistryQuiet /\ QueueQuiet

SpecChunked == InitChunked /\ [][ChunkedNext]_vars

InitPoll ==
    PollInit /\ BreakerQuiet /\ CacheQuiet /\ DmQuiet /\ BatchQuiet /\ KeyQuiet
       /\ ChunkerQuiet /\ ChunkedQuiet /\ CacheThreadsQuiet /\ RegistryQuiet /\ QueueQuiet

SpecPoll == InitPoll /\ [][PollNext]_vars

InitCacheThreads ==
    CacheInit /\ CacheThreadsInit /\ BreakerQuiet /\ DmQuiet /\ BatchQuiet /\ KeyQuiet
       /\ ChunkerQuiet /\ ChunkedQuiet /\ PollQuiet /\ RegistryQuiet /\ QueueQuiet

SpecCacheThreads == InitCacheThreads /\ [][CacheThreadsNext]_vars

InitRegistry ==
    RegistryInit /\ BreakerQuiet /\ CacheQuiet /\ DmQuiet /\ BatchQuiet /\ KeyQuiet
       /\ ChunkerQuiet /\ ChunkedQuiet /\ PollQuiet /\ CacheThreadsQuiet /\ QueueQuiet

SpecRegistry == InitRegistry /\ [][RegistryNext]_vars

InitQueue ==
    QueueInit /\ BreakerQuiet /\ CacheQuiet /\ DmQuiet /\ BatchQuiet /\ KeyQuiet
       /\ ChunkerQuiet /\ ChunkedQuiet /\ PollQuiet /\ CacheThreadsQuiet
       /\ RegistryQuiet

SpecQueue == InitQueue /\ [][QueueNext]_vars

----------------------------------------------------------------------------
(* Circuit breaker claims *)

(* a step of call()'s admission section: the only code that counts a request *)
IsCallStep == total_requests' = total_requests + 1

(* the call of this step raised CircuitBreakerOpenException and func was    *)
(* not started: no thread entered "running"                                 *)
CallRejected == cb_event'.op = "reject" /\ cb_pc' = cb_pc

(* C2: a closed breaker whose consecutive tracked failures have reached     *)
(* failure_threshold moves to open on the next call() and rejects that call *)
(* without invoking the wrapped callable.                                   *)
C2_ClosedAtThresholdOpensAndRejects ==
    [][(state = CLOSED /\ current_consecutive_failures >= failure_threshold
            /\ IsCallStep)
        => (state' = OPEN /\ CallRejected)]_vars

C2_Witness ==
    /\ cb_event.op = "reject"
    /\ cb_event.pre = CLOSED
    /\ state = OPEN
    /\ current_consecutive_failures = failure_threshold
    /\ failure_threshold = 2

C4_ResetMeasuredFromLastFailure ==
    [][(state = OPEN /\ stats_last_failure_time # NONE_TIME /\ IsCallStep)
        => ((state' = HALF_OPEN /\ cb_event'.op = "admit")
              <=> (cb_now - stats_last_failure_time >= recovery_timeout))]_vars

(* C5: in half-open every success increments the consecutive successes; the *)
(* breaker closes, with both consecutive counters at zero, exactly when the *)
(* count reaches success_threshold, and stays half-open below it.           *)
C5_HalfOpenClosesAtSuccessThreshold ==
    /\ [][(state = HALF_OPEN /\ cb_event'.op = "success")
            => /\ current_consecutive_successes + 1 <= success_threshold
               /\ (current_consecutive_successes + 1 = success_threshold
                     => /\ state' = CLOSED
                        /\ current_consecutive_failures' = 0
                        /\ current_consecutive_successes' = 0)
               /\ (current_consecutive_successes + 1 < success_threshold
                     => /\ state' = HALF_OPEN
                        /\ current_consecutive_successes'
                              = current_consecutive_successes + 1)]_vars
    /\ [][(state = HALF_OPEN /\ state' = CLOSED)
            => \/ cb_event'.op = "reset"
               \/ /\ cb_event'.op = "success"
                  /\ current_consecutive_successes + 1 = success_threshold]_vars

C5_Witness ==
    /\ cb_event.op = "success"
    /\ cb_event.pre = HALF_OPEN
    /\ state = CLOSED
    /\ success_threshold = 2
    /\ current_consecutive_successes = 0
    /\ current_consecutive_failures = 0

(* C6: a tracked failure in half-open moves the breaker to open at once     *)
(* (whatever the successes so far), stamping the failure's time; while the  *)
(* breaker stays open the stamp does not move and calls are rejected until  *)
(* recovery_timeout has elapsed from it.                                    *)
C6_HalfOpenFailureReopens ==
    /\ [][(state = HALF_OPEN /\ cb_event'.op = "failure")
            => (state' = OPEN /\ last_failure_time' = cb_now
                  /\ stats_last_failure_time' = cb_now)]_vars
    /\ [][(state = OPEN /\ state' = OPEN)
            => last_failure_time' = last_failure_time]_vars
    /\ [][(state = OPEN /\ IsCallStep /\ last_failure_time # NONE_TIME
             /\ cb_now < last_failure_time + recovery_timeout)
            => (CallRejected /\ state' = OPEN)]_vars

(* a half-open failure preceded by a half-open success of the other thread *)
C6_Witness ==
    /\ cb_event.op = "failure"
    /\ cb_event.pre = HALF_OPEN
    /\ state = OPEN
    /\ last_failure_time = cb_now
    /\ success_threshold = 2
    /\ \E t \in Callers : cb_outcome[t] = "success"

(* the wrapped callable of some thread has just raised an exception        *)
(* outside expected_exceptions, which call() re-raised                     *)
(* C33: the lock is held for the admission check and for recording the    *)
(* outcome only, not while func runs: while one call's func is running, a  *)
(* call() of another thread goes through its admission check at once (it   *)
(* is admitted or rejected)                                                *)
C33_AdmissionNotBlockedByRunningCall ==
    \A t, u \in Callers :
       (/\ t # u
        /\ cb_pc[t] = "running"
        /\ cb_pc[u] = "idle"
        /\ total_requests < MaxRequests)
         => ENABLED CallAdmit(u)

(* a call was admitted while the func of the other call was running *)
C33_Witness ==
    /\ cb_event.op = "admit"
    /\ \A t \in Callers : cb_pc[t] = "running"

(* C34: a recorded success leaves the consecutive failures at zero and a   *)
(* recorded tracked failure leaves the consecutive successes at zero,      *)
(* whatever the state; so the two counts are never both above zero         *)
C34_ConsecutiveCountsExclusive ==
    [][/\ cb_event'.op = "success" => current_consecutive_failures' = 0
       /\ cb_event'.op = "failure" => current_consecutive_successes' = 0
       /\ ~(current_consecutive_failures' > 0 /\ current_consecutive_successes' > 0)
      ]_vars

(* a success recorded in the half-open state after failures had been      *)
(* counted: the failures are back at zero                                  *)
C34_Witness ==
    /\ cb_event.op = "success"
    /\ cb_event.pre = HALF_OPEN
    /\ state = HALF_OPEN
    /\ current_consecutive_successes = 1
    /\ current_consecutive_failures = 0
    /\ stats_last_failure_time # NONE_TIME

(* C38: the breaker leaves the half-open state only on the outcome of a    *)
(* call that was admitted while it was half-open; the outcome of a call    *)
(* admitted earlier neither closes nor reopens it                          *)
C38_HalfOpenLeftOnlyByHalfOpenCalls ==
    [][(/\ state = HALF_OPEN
        /\ state' # HALF_OPEN
        /\ cb_event'.op \in {"success", "failure"})
         => cb_outcome[cb_event'.thread] = "started_half_open"]_vars

(* C39: the state changes only closed -> open, open -> half-open,          *)
(* half-open -> closed and half-open -> open, and to closed by reset()     *)
StateTransitions ==
    {<<CLOSED, OPEN>>, <<OPEN, HALF_OPEN>>, <<HALF_OPEN, CLOSED>>, <<HALF_OPEN, OPEN>>}

C39_OnlyListedTransitions ==
    [][state' # state
         => \/ <<state, state'>> \in StateTransitions
            \/ cb_event'.op = "reset" /\ state' = CLOSED]_vars

(* a success recorded while the breaker is open, by a call admitted before *)
(* it opened, has left it open                                             *)
C39_Witness ==
    /\ cb_event.op = "success"
    /\ cb_event.pre = OPEN
    /\ state = OPEN

IsUnexpectedStep ==
    \E t \in Callers : /\ cb_pc[t] = "running"
                       /\ cb_pc'[t] = "idle"
                       /\ cb_outcome'[t] = "unexpected"

(* C26: an exception outside the expected set leaves the breaker's state,  *)
(* both consecutive counts and the last-failure time as they were, in the  *)
(* closed and in the half-open state alike.                                *)
C26_UnexpectedExceptionLeavesBreaker ==
    [][IsUnexpectedStep
        => /\ state' = state
           /\ current_consecutive_failures' = current_consecutive_failures
           /\ current_consecutive_successes' = current_consecutive_successes
           /\ last_failure_time' = last_failure_time
           /\ stats_last_failure_time' = stats_last_failure_time
           /\ total_requests' = total_requests]_vars

(* an unexpected exception in the half-open state, after a success that    *)
(* counts towards closing and with a failure on record                     *)
C26_Witness ==
    /\ cb_event.op = "unexpected"
    /\ cb_event.pre = HALF_OPEN
    /\ state = HALF_OPEN
    /\ current_consecutive_successes >= 1
    /\ last_failure_time # NONE_TIME

----------------------------------------------------------------------------
(* Result cache and document manager claims *)

(* the process_document call just returned got past validation *)
DmCallValid == dm_last.path \in {"cache_hit", "download_empty", "exception", "processed"}

(* C1: of two process_document calls for the same key within the age       *)
(* ceiling, the first (nothing cached, processing path) is a miss that     *)
(* invokes the processor, the second is a cache hit that does not: one     *)
(* invocation across both calls; each of the two calls sends the           *)
(* document-processed webhook when a webhook client is configured.         *)
C1_SecondCallHitsCache ==
    LET prev == dm_last.prev IN
    DmCallValid =>
       /\ prev.path = "none" => dm_last.path # "cache_hit"
       /\ dm_last.path = "processed" =>
             /\ dm_last.invoked
             /\ ~dm_last.from_cache
             /\ n8n_configured => dm_last.webhook = "send_document_processed"
       /\ (prev.path = "processed" /\ dm_last.time - prev.time <= max_age_hours) =>
             /\ dm_last.path = "cache_hit"
             /\ dm_last.from_cache
             /\ ~dm_last.invoked
             /\ prev.invoked
             /\ n8n_configured => dm_last.webhook = "send_document_processed"

(* the second call, made exactly at the age ceiling, was a hit *)
C1_Witness ==
    /\ dm_last.path = "cache_hit"
    /\ dm_last.prev.path = "processed"
    /\ dm_last.prev.invoked
    /\ ~dm_last.invoked
    /\ dm_last.time = dm_last.prev.time + max_age_hours
    /\ n8n_configured
    /\ dm_last.webhook = "send_document_processed"

(* C10: a get() returns the result stored by the latest set() of its key   *)
(* when that set is at most max_age_hours old and neither an invalidation  *)
(* nor a restart came in between.                                          *)
C10_GetReturnsLatestSet ==
    [][(cache_ret'.op = "get" /\ cache_ops' = cache_ops + 1)
        => LET latest == LastSet(cache_ret'.key) IN
           (latest # NoSet /\ cache_now - latest.time <= max_age_hours)
              => cache_ret'.value = latest.result]_vars

(* a get at the age ceiling returned the result of a set that replaced a   *)
(* different result of the same key                                        *)
C10_Witness ==
    /\ cache_ret.op = "get"
    /\ LastSet(cache_ret.key).overwrote
    /\ cache_now - LastSet(cache_ret.key).time = max_age_hours
    /\ cache_ret.value = LastSet(cache_ret.key).result
    /\ Truthy(cache_ret.value)

(* a step that is a direct get() of the cache *)
IsGetStep == cache_ret'.op = "get" /\ cache_ops' = cache_ops + 1

(* the key differs from the requested one in the fingerprint only *)
SameButEtag(k, requested) ==
    k[1] # requested[1] /\ k[2] = requested[2] /\ k[3] = requested[3]
       /\ k[4] = requested[4]

(* C11 (as claimed): a get for a document whose fingerprint differs from   *)
(* the one an entry of the same category, machine names and mode was       *)
(* stored under returns nothing and removes that entry from the memory     *)
(* index and from disk.                                                    *)
C11_StaleFingerprintEvicted ==
    [][IsGetStep =>
         \A k \in DOMAIN memory_cache :
            (SameButEtag(k, cache_ret'.key) /\ cache_ret'.key \notin DOMAIN memory_cache)
               => /\ cache_ret'.value = NoneResult
                  /\ k \notin DOMAIN memory_cache'
                  /\ k \notin DOMAIN disk_cache']_vars

Permutation(p, q) ==
    /\ Len(p) = Len(q)
    /\ \A i \in DOMAIN p :
          Cardinality({j \in DOMAIN p : p[j] = p[i]})
             = Cardinality({j \in DOMAIN q : q[j] = p[i]})

(* C13: two requests get the same cache key exactly when they agree in     *)
(* fingerprint, category and basic flag and their machine-name lists are   *)
(* reorderings of each other; storage key, filename and processing method  *)
(* have no influence (md5 collisions set aside).                           *)
C13_KeyOfFourInputs ==
    (key_call.called /\ key_prev.called) =>
       (key_call.cache_key = key_prev.cache_key
          <=> /\ key_call.document.etag = key_prev.document.etag
              /\ key_call.metadata.document_type = key_prev.metadata.document_type
              /\ key_call.metadata.basic = key_prev.metadata.basic
              /\ Permutation(key_call.metadata.machine_names,
                             key_prev.metadata.machine_names))

(* the same key for two requests that differ in the order of the names,    *)
(* in storage key, filename and processing method                          *)
C13_Witness ==
    /\ key_call.called
    /\ key_prev.called
    /\ key_call.cache_key = key_prev.cache_key
    /\ key_prev.metadata.machine_names = <<"X1", "X2">>
    /\ key_call.metadata.machine_names = <<"X2", "X1">>
    /\ key_call.document.s3_key # key_prev.document.s3_key
    /\ key_call.document.filename # key_prev.document.filename
    /\ key_call.metadata.processing_method # key_prev.metadata.processing_method

(* process_document has returned to its caller *)
DmReturned == dm_last.path # "none"

C21_OneNotificationPerCall ==
    (DmReturned /\ n8n_configured)
    => dm_last.webhook \in {"send_document_processed", "send_processing_error"}

(* C22: process_document returns success=true only when the result it      *)
(* hands back, fresh or cached, has its processing success flag set; a     *)
(* result whose processing failed comes with success=false and an error.   *)
C22_SuccessOnlyIfProcessingSucceeded ==
    DmReturned =>
       /\ dm_last.success => dm_last.processing_result.success
       /\ (dm_last.path \in {"processed", "cache_hit"}
             /\ ~dm_last.processing_result.success)
            => dm_last.success = FALSE /\ dm_last.error # "None"

(* a process_document call that got past validation has just returned *)
IsProcessStep == cache_ops' = cache_ops + 1 /\ DmCallValid'

(* C23: a call whose processor returned a failed result leaves that result *)
(* in the cache under the request's key, and the next call for the same    *)
(* key, made before the age ceiling has passed, is a cache hit that hands  *)
(* back the failed result without invoking the processor.                  *)
C23_FailedResultCached ==
    [][IsProcessStep =>
        LET last == dm_last'
            prev == last.prev
        IN /\ (last.path = "processed" /\ ~last.processing_result.success)
                => /\ last.key \in DOMAIN memory_cache'
                   /\ memory_cache'[last.key].processing_result
                        = last.processing_result
           /\ (/\ prev.path = "processed"
               /\ ~prev.result_success
               /\ last.time - prev.time <= max_age_hours)
                => /\ last.path = "cache_hit"
                   /\ ~last.invoked
                   /\ ~last.processing_result.success]_vars

(* the repeated call, made exactly at the age ceiling, was answered with   *)
(* the cached failed result                                                *)
C23_Witness ==
    /\ dm_last.path = "cache_hit"
    /\ dm_last.prev.path = "processed"
    /\ ~dm_last.prev.result_success
    /\ dm_last.prev.invoked
    /\ ~dm_last.invoked
    /\ ~dm_last.processing_result.success
    /\ dm_last.time = dm_last.prev.time + max_age_hours
    /\ max_age_hours > 0

(* C27: the group _group_by_processor_type puts an item in is the          *)
(* processor that process_document runs for the item's metadata (the       *)
(* document type is the second component of the request's key).            *)
C27_GroupIsProcessorUsed ==
    dm_last.path = "processed"
    => LegacyProcessorType(dm_last.key[2]) = dm_last.processor_used

----------------------------------------------------------------------------
(* C29: invalidate_document removes every entry stored for the document's  *)
(* ETag from the memory index and from the disk, and leaves the entries of  *)
(* every other ETag as they were, in memory and on disk, so that get()      *)
(* answers for them as before                                               *)
IsInvalidateStep ==
    cache_ret'.op = "invalidate_document" /\ cache_ops' = cache_ops + 1

EntriesOf(cache, etag) == {k \in DOMAIN cache : cache[k].document_etag = etag}

C37_CacheHitOfRequestedMethod ==
    dm_last.path = "cache_hit"
      => dm_last.cached_processor = ProcessorOfMethod(dm_last.processing_method)

(* Chunker claims *)

(* the 0-based page numbers first..last in order *)
PageRange(first, last) == [j \in 1..(last - first + 1) |-> first + j - 1]

(* C14: for a document of at least one page the chunks returned cover the  *)
(* page range exactly and in order: the first starts at page 1, the last   *)
(* ends at the page count, each starts one past the end of the one before, *)
(* none is empty, the chunk numbers are 1..k, and each chunk's start/end   *)
(* pages are the original 1-based numbers of the pages written into it.    *)
C14_ChunksCoverPageRange ==
    (chunk_pc = "done" /\ total_pages >= 1) =>
       /\ Len(chunks) >= 1
       /\ chunks[1].start_page = 1
       /\ chunks[Len(chunks)].end_page = total_pages
       /\ \A c \in DOMAIN chunks :
             /\ chunks[c].chunk_number = c
             /\ chunks[c].start_page <= chunks[c].end_page
             /\ chunks[c].pages
                   = PageRange(chunks[c].start_page - 1, chunks[c].end_page - 1)
             /\ c > 1 => chunks[c].start_page = chunks[c - 1].end_page + 1

(* three chunks, one of them of several pages *)
C14_Witness ==
    /\ chunk_pc = "done"
    /\ total_pages = 4
    /\ Len(chunks) = 3
    /\ \E c \in DOMAIN chunks : Len(chunks[c].pages) = 2

(* C15: a page larger than the ceiling is the only page of its chunk,      *)
(* whether it is the first, a middle or the last page.                     *)
C15_OversizedPageAlone ==
    chunk_pc = "done" =>
       \A p \in DOMAIN pdf_pages :
          pdf_pages[p] > max_chunk_size_bytes =>
             \E c \in DOMAIN chunks :
                /\ chunks[c].pages = <<p - 1>>
                /\ chunks[c].start_page = p
                /\ chunks[c].end_page = p
                /\ \A d \in DOMAIN chunks :
                      d # c => \A j \in DOMAIN chunks[d].pages :
                                  chunks[d].pages[j] # p - 1

(* oversized first, middle and last pages around a page that fits *)
C15_Witness ==
    /\ chunk_pc = "done"
    /\ total_pages = 4
    /\ pdf_pages[1] > max_chunk_size_bytes
    /\ pdf_pages[2] <= max_chunk_size_bytes
    /\ pdf_pages[3] > max_chunk_size_bytes
    /\ pdf_pages[4] > max_chunk_size_bytes
    /\ Len(chunks) = 4

(* the summed page sizes of the document and of chunk c *)
TotalPageSize == SumSeq(pdf_pages)

ChunkSize(c) ==
    SumSeq([j \in DOMAIN chunks[c].pages |-> pdf_pages[chunks[c].pages[j] + 1]])

NoOversizedPage == \A p \in DOMAIN pdf_pages : pdf_pages[p] <= max_chunk_size_bytes

(* C32 as stated: whatever the division into pages, the number of chunks   *)
(* is at least the summed page size divided by the ceiling, rounded up     *)
C32_AtLeastCeilingChunks ==
    chunk_pc = "done" => Len(chunks) * max_chunk_size_bytes >= TotalPageSize

(* C32: when no page is larger than the ceiling, the number of chunks is   *)
(* at least the summed page size divided by the ceiling, rounded up; so a  *)
(* document of more than three ceilings (250MB at 80MB) gets at least four *)
(* chunks                                                                  *)
C32_AtLeastCeilingChunksOfFittingPages ==
    (chunk_pc = "done" /\ NoOversizedPage)
      => /\ Len(chunks) * max_chunk_size_bytes >= TotalPageSize
         /\ TotalPageSize > 3 * max_chunk_size_bytes => Len(chunks) >= 4

(* pages that all fit, more than three ceilings in total, four chunks *)
C32_Witness ==
    /\ chunk_pc = "done"
    /\ NoOversizedPage
    /\ max_chunk_size_bytes = 2
    /\ TotalPageSize = 7
    /\ Len(chunks) = 4

(* C35: every chunk of more than one page has a summed page size of at     *)
(* most the ceiling, and every chunk but the last is full: with the first  *)
(* page of the next chunk it would pass the ceiling                        *)
C35_ChunksFitAndAreGreedy ==
    chunk_pc = "done" =>
       \A c \in DOMAIN chunks :
          /\ Len(chunks[c].pages) > 1 => ChunkSize(c) <= max_chunk_size_bytes
          /\ c < Len(chunks)
               => ChunkSize(c) + pdf_pages[chunks[c + 1].pages[1] + 1]
                     > max_chunk_size_bytes

(* a chunk of two pages that fills the ceiling exactly, a chunk after it   *)
C35_Witness ==
    /\ chunk_pc = "done"
    /\ Len(chunks) >= 2
    /\ \E c \in DOMAIN chunks :
          /\ c < Len(chunks)
          /\ Len(chunks[c].pages) = 2
          /\ ChunkSize(c) = max_chunk_size_bytes

----------------------------------------------------------------------------
(* Chunked-document claims *)

ChunkedReturned == cd_pc = "done"

SucceededChunks == {c \in DOMAIN chunk_results : chunk_results[c].success}

(* the positions in the combined pages that came from chunk c *)
PositionsOf(c) ==
    {k \in DOMAIN combined_result.pages :
        combined_result.pages[k].chunk_info.chunk_id = c}

(* C16: when every chunk of the document succeeded, the page_number values *)
(* of the combined result are strictly increasing in output order, so no   *)
(* two of its pages share a page_number or a page_id, whatever number of   *)
(* pages each chunk's processing returned.                                 *)
C16_PageNumbersStrictlyIncreasing ==
    (/\ ChunkedReturned
     /\ chunk_results # << >>
     /\ SucceededChunks = DOMAIN chunk_results)
    => /\ \A k \in DOMAIN combined_result.pages :
            k > 1 => combined_result.pages[k - 1].page_number
                        < combined_result.pages[k].page_number
       /\ \A k, l \in DOMAIN combined_result.pages :
            k # l => /\ combined_result.pages[k].page_number
                          # combined_result.pages[l].page_number
                     /\ combined_result.pages[k].page_id
                          # combined_result.pages[l].page_id

(* C17: when some chunk failed, the combined result reports success=false  *)
(* and still holds every page of every succeeding chunk, chunk after chunk *)
(* and page after page; the first page of each succeeding chunk carries    *)
(* the chunk's start_page, and page j the number start_page + j - 1 as     *)
(* long as that is within the document's page count.                       *)
C17_FailedChunkKeepsOtherPages ==
    (ChunkedReturned /\ SucceededChunks # DOMAIN chunk_results)
    => /\ combined_result.success = FALSE
       /\ Len(combined_result.pages)
            = SumSeq([c \in DOMAIN chunk_results |-> chunk_results[c].pages])
       /\ \A c \in DOMAIN chunk_results :
            IF c \in SucceededChunks
            THEN /\ Cardinality(PositionsOf(c)) = chunk_results[c].pages
                 /\ \A k \in PositionsOf(c) :
                      LET page == combined_result.pages[k]
                          j == page.chunk_info.chunk_page_number
                          n == cd_chunks[c].start_page + j - 1
                      IN /\ j \in 1..chunk_results[c].pages
                         /\ n <= expected_page_count => page.page_number = n
                         /\ \A l \in PositionsOf(c) :
                              k < l => j < combined_result.pages[l]
                                              .chunk_info.chunk_page_number
                         /\ \A d \in SucceededChunks : \A l \in PositionsOf(d) :
                              c < d => k < l
            ELSE PositionsOf(c) = {}

(* chunk 2 of 3 failed all its attempts; chunks 1 and 3 returned as many   *)
(* pages as they hold                                                      *)
C17_Witness ==
    /\ ChunkedReturned
    /\ Len(cd_chunks) = 3
    /\ SucceededChunks = {1, 3}
    /\ attempts[2] = <<"failure", "failure">>
    /\ \A c \in {1, 3} :
         chunk_results[c].pages = cd_chunks[c].end_page - cd_chunks[c].start_page + 1
    /\ Len(combined_result.pages) = chunk_results[1].pages + chunk_results[3].pages
    /\ combined_result.pages[chunk_results[1].pages + 1].page_number
         = cd_chunks[3].start_page
    /\ combined_result.success = FALSE

(* C18: every chunk the loop has passed was attempted at least once and at *)
(* most max_chunk_retries times, each attempt but its last one a failed    *)
(* one, and left exactly one result; the loop passes every chunk, so when  *)
(* the document returns every chunk was attempted and all the results took *)
(* part in the combination, also those after a chunk that failed all its   *)
(* attempts.                                                               *)
C18_BoundedAttemptsNoAbort ==
    /\ \A c \in DOMAIN cd_chunks :
         /\ Len(attempts[c]) <= max_chunk_retries
         /\ \A a \in DOMAIN attempts[c] :
              a < Len(attempts[c]) => attempts[c][a] = "failure"
         /\ c < chunk_index
              => /\ Len(attempts[c]) >= 1
                 /\ c \in DOMAIN chunk_results
                 /\ chunk_results[c].chunk_info = cd_chunks[c]
                 /\ chunk_results[c].success
                      = (attempts[c][Len(attempts[c])] = "success")
                 /\ ~chunk_results[c].success
                      => Len(attempts[c]) = max_chunk_retries
         /\ c > chunk_index => attempts[c] = << >>
    /\ ChunkedReturned
         => /\ chunk_index = Len(cd_chunks) + 1
            /\ Len(chunk_results) = Len(cd_chunks)
            /\ combined_result.total_chunks = Len(cd_chunks)
            /\ combined_result.successful_chunks + combined_result.failed_chunks
                 = Len(cd_chunks)

(* the first chunk failed all its attempts, the second succeeded at its    *)
(* second attempt, the third at its first                                  *)
C18_Witness ==
    /\ ChunkedReturned
    /\ Len(cd_chunks) = 3
    /\ attempts[1] = <<"failure", "failure">>
    /\ attempts[2] = <<"failure", "success">>
    /\ attempts[3] = <<"success">>
    /\ combined_result.total_chunks = 3
    /\ combined_result.successful_chunks = 2

(* C31: when a chunk failed, the combined result's error summary has, for  *)
(* every failing chunk, an item that gives that chunk's page range         *)
(* start_page-end_page in the original document                            *)
FailedChunks == DOMAIN chunk_results \ SucceededChunks

C31_ErrorSummaryNamesPageRanges ==
    (ChunkedReturned /\ FailedChunks # {})
      => \A c \in FailedChunks :
            \E k \in DOMAIN combined_result.error_details :
               LET item == combined_result.error_details[k] IN
               /\ item.chunk_number = c
               /\ item.names_pages
               /\ item.start_page = chunk_results[c].chunk_info.start_page
               /\ item.end_page = chunk_results[c].chunk_info.end_page

(* C30: the combined result reports success exactly when at least one     *)
(* chunk result is successful and none is failed; with no chunk results    *)
(* and with any failed chunk result it reports failure                     *)
C30_SuccessIffAllChunksSucceeded ==
    ChunkedReturned
      => /\ combined_result.success
              <=> /\ SucceededChunks # {}
                  /\ SucceededChunks = DOMAIN chunk_results
         /\ chunk_results = << >> => ~combined_result.success
         /\ (\E c \in DOMAIN chunk_results : ~chunk_results[c].success)
              => ~combined_result.success
         /\ combined_result.successful_chunks = Cardinality(SucceededChunks)
         /\ combined_result.failed_chunks
              = Cardinality(DOMAIN chunk_results \ SucceededChunks)

(* several chunk results, all successful, one of them after a failed       *)
(* attempt, were combined into a successful result                         *)
C30_Witness ==
    /\ ChunkedReturned
    /\ Len(chunk_results) >= 2
    /\ combined_result.success
    /\ \E c \in DOMAIN attempts : Len(attempts[c]) >= 2

----------------------------------------------------------------------------
(* Cache thread claims *)

(* C24: under every interleaving of the threads' cache operations no get   *)
(* raises, a get returns nothing or a result some set stored, and no       *)
(* cleanup or invalidate scan ends in an error.                            *)
C24_CacheOperationsAtomic ==
    \A t \in CacheThreads :
       /\ cache_threads[t].ret \notin {"KeyError", "RuntimeError"}
       /\ (cache_threads[t].op = "get" /\ cache_threads[t].pc = "idle")
            => cache_threads[t].ret
                 \in {"None"} \cup {i.result.tag : i \in CacheSetInputs}

----------------------------------------------------------------------------
(* Breaker registry claims *)

(* C25: under every interleaving, all lookups of a name return the same    *)
(* CircuitBreaker instance.                                                *)
C25_OneInstancePerName ==
    \A name \in BreakerNames : Cardinality(handles[name]) <= 1

----------------------------------------------------------------------------
(* Processing queue claims *)

TaskStatuses == {"pending", "processing", "completed", "failed", "cancelled"}

(* C40: every task has one of the five statuses; a task for which          *)
(* cancel_task returned True stays cancelled and enters neither            *)
(* completed_tasks nor failed_tasks; completed + failed + cancelled in the *)
(* statistics never exceed total_tasks                                     *)
C40_CancelledTaskStaysCancelled ==
    /\ \A task_id \in DOMAIN tasks : tasks[task_id].status \in TaskStatuses
    /\ \A task_id \in cancel_accepted :
          /\ tasks[task_id].status = "cancelled"
          /\ task_id \notin SeqToSet(completed_tasks)
          /\ task_id \notin SeqToSet(failed_tasks)
    /\ stats.completed_tasks + stats.failed_tasks + stats.cancelled_tasks
          <= stats.total_tasks

----------------------------------------------------------------------------
(* Polling claims *)

TerminalStatuses == {"complete", "failed"}

(* C19: a status check that came back with a terminal status is the last   *)
(* one made, and polling has then ended with the result (complete) or with *)
(* the processing failure (failed); the timeout error is raised only when  *)
(* no check came back with a terminal status.                              *)
C19_StopsAtFirstTerminalStatus ==
    /\ \A k \in DOMAIN poll_responses :
         poll_responses[k] \in TerminalStatuses
           => /\ k = Len(poll_responses)
              /\ poll_pc \in {"returned", "raised"}
              /\ poll_responses[k] = "complete" => poll_outcome = "result"
              /\ poll_responses[k] = "failed" => poll_outcome = "processing_failed"
    /\ poll_outcome = "timed_out"
         => \A k \in DOMAIN poll_responses : poll_responses[k] \notin TerminalStatuses

----------------------------------------------------------------------------
(* Batch claims *)

(* the units whose process_document call is in flight *)
InFlight == {i \in DOMAIN units : units[i].status = "running"}

C36_CountersMatchResults ==
    /\ cache_hits + cache_misses = processed_count
    /\ bp_pc = "done"
         => cache_hits + cache_misses
               = Len(successful_results) + Len(failed_results)

(* the first half of C36 alone *)
CountersConsistent == cache_hits + cache_misses = processed_count

(* the item indexes in the lists process_batch returns *)
ReturnedResults == successful_results \o failed_results

Occurrences(q, x) == Cardinality({j \in DOMAIN q : q[j] = x})

(* C7: a batch that returns without cancellation has processed every item  *)
(* exactly once and returns each item in exactly one of its two lists,     *)
(* whatever the limits, the grouping and the items' outcomes.              *)
C7_EveryItemOnce ==
    (bp_pc = "done" /\ ~cancelled) =>
       /\ Len(successful_results) + Len(failed_results) = Len(documents_with_metadata)
       /\ processed_count = Len(documents_with_metadata)
       /\ \A i \in DOMAIN documents_with_metadata :
             /\ Occurrences(ReturnedResults, i) = 1
             /\ units[i].status = "collected"
             /\ units[i].success <=> i \in SeqToSet(successful_results)

(* three items in two groups, one of them run by a pool; an item failed    *)
(* and a later item succeeded                                              *)
C7_Witness ==
    /\ bp_pc = "done"
    /\ ~cancelled
    /\ Len(documents_with_metadata) = 3
    /\ Len(Groups) = 2
    /\ max_concurrent_documents = 2
    /\ \E i, j \in DOMAIN documents_with_metadata :
          /\ i < j
          /\ i \in SeqToSet(failed_results)
          /\ j \in SeqToSet(successful_results)

(* C8 (as claimed): once the flag is set no unit that had not started is   *)
(* started.                                                                *)
C8_NoUnitStartsAfterCancel ==
    [][cancelled =>
         \A i \in DOMAIN units :
            units'[i].status = "running" => units[i].status = "running"]_vars

(* C9 (as claimed): a batch that returns after a cancellation returns      *)
(* every unit whose processing completed.                                  *)
C9_CancelKeepsCompletedResults ==
    (bp_pc = "done" /\ cancelled) =>
       \A i \in DOMAIN units :
          units[i].status \in {"done", "collected"} => i \in SeqToSet(ReturnedResults)

====
